---- MODULE Spec2Model ----
(***************************************************************************)
(* Version/changelog state engine of version_manager.py.                   *)
(*                                                                         *)
(* Text is modelled character by character: a Python str is a sequence of  *)
(* one-character strings, and a file is a record                           *)
(* [exists, readable, writable, data]: data is the content on disk,        *)
(* readable is FALSE when read_text() raises on it (content that does not  *)
(* decode), and writable tells how write_text() on that path ends: "yes"   *)
(* (written), "denied" (open() raises, nothing is touched) or "full"       *)
(* (open() has truncated or created the file when the write raises).       *)
(* Path.read_text() opens the file in text mode with universal newlines,   *)
(* and Path.write_text() writes "\n" as os.linesep; the model is of a      *)
(* POSIX host, where os.linesep is "\n".                                   *)
(*                                                                         *)
(* Five specifications share the operators: Spec (the version store and    *)
(* its command line), SpecChangelog (repeated update_changelog calls),     *)
(* SpecFaults (the same operations in a directory where writes fail),      *)
(* SpecTag (create_git_tag with and without a repository) and              *)
(* SpecInteractive (the menu loop of interactive_mode).  An operator that  *)
(* models a method returns a record: the files (or the git) afterwards,    *)
(* the exception raised and the warning printed.                           *)
(***************************************************************************)
EXTENDS Integers, Sequences, FiniteSets, TLC

VARIABLES
    versionFile,    \* <project_root>/VERSION
    pyprojectFile,  \* <project_root>/pyproject.toml
    changelogFile,  \* <project_root>/CHANGELOG.md
    call,           \* the operation last invoked, with its arguments
    outcome,        \* how that operation ended: returned / raised / exited
    before,         \* the three files as they were when that operation began
    nOps,           \* number of operations invoked so far
    git,            \* the git the program finds: its kind and the tags it holds
    gitCalls,       \* the git commands the operation last invoked has run
    session,        \* where the interactive session stands, and how it ended
    client,         \* the ModNetClient object, once constructed
    sourceFile      \* the Python file handed to HardcodedValueFixer.fix_file

vars == <<versionFile, pyprojectFile, changelogFile, call, outcome, before, nOps,
          git, gitCalls, session, client, sourceFile>>

(***************************************************************************)
(* Bounds of the model.                                                    *)
(***************************************************************************)
\* operations per behaviour of the version-store specification
MaxOps == 1
\* update_changelog calls per behaviour of the changelog specification
MaxInserts == 2
\* lines typed at the prompts of an interactive session
MaxInputs == 3
\* operations per behaviour of the sequence specification
MaxSteps == 3
\* lines of an initial changelog document
MaxLines == 3

\* calls on one ModNetClient per behaviour of the client specification
MaxCalls == 3
\* fix_file calls on one file per behaviour of the fixer specification
MaxFixes == 2

(***************************************************************************)
(* Python str primitives.                                                  *)
(***************************************************************************)
LF == "\n"
CR == "\r"

\* str.strip() with no argument strips whitespace (the ASCII part of it)
Whitespace == {" ", "\t", LF, CR}

DigitChars == <<"0", "1", "2", "3", "4", "5", "6", "7", "8", "9">>

Min(S) == CHOOSE x \in S : \A y \in S : x <= y

\* s[i:] in Python, with i a 1-based index here
From(s, i) == SubSeq(s, i, Len(s))

\* s[:i] exclusive of the 1-based index i
Upto(s, i) == SubSeq(s, 1, i - 1)

\* the 1-based positions at which p occurs in s
Occurrences(s, p) ==
    {i \in 1..(Len(s) - Len(p) + 1) : s[i] = p[1] /\ SubSeq(s, i, i + Len(p) - 1) = p}

\* str.find / the `in` operator / re.search of a literal: first position, 0 if none
Find(s, p) ==
    LET found == Occurrences(s, p)
    IN  IF found = {} THEN 0 ELSE Min(found)

Contains(s, p) == Find(s, p) # 0

StartsWith(s, p) == Len(s) >= Len(p) /\ SubSeq(s, 1, Len(p)) = p

\* first index j >= i with s[j] outside C, Len(s)+1 if there is none:
\* where a greedy run C* (or C+) that starts at i stops
RunEnd(s, i, C) ==
    Min({j \in i..(Len(s) + 1) : j = Len(s) + 1 \/ s[j] \notin C})

Digits == {DigitChars[d] : d \in 1..Len(DigitChars)}

\* str.strip()
Strip(s) ==
    LET keep == {i \in 1..Len(s) : s[i] \notin Whitespace}
    IN  IF keep = {} THEN << >>
        ELSE SubSeq(s, Min(keep), CHOOSE x \in keep : \A y \in keep : y <= x)

RECURSIVE SplitLines(_)
\* content.split("\n")
SplitLines(s) ==
    LET i == Find(s, <<LF>>)
    IN  IF i = 0 THEN <<s>>
        ELSE <<Upto(s, i)>> \o SplitLines(From(s, i + 1))

RECURSIVE JoinLines(_)
\* "\n".join(lines)
JoinLines(lines) ==
    IF lines = << >> THEN << >>
    ELSE IF Len(lines) = 1 THEN lines[1]
    ELSE lines[1] \o <<LF>> \o JoinLines(Tail(lines))

\* text-mode read with newline=None: "\r\n" and a lone "\r" are read as "\n"
\* (the "\n" of a "\r\n" is dropped, then every "\r" is read as "\n")
UniversalNewlines(raw) ==
    LET paired == [i \in 1..Len(raw) |-> <<raw[i], IF i > 1 THEN raw[i - 1] ELSE "">>]
        NotAfterCR(p) == ~(p[1] = LF /\ p[2] = CR)
        kept == SelectSeq(paired, NotAfterCR)
    IN  [i \in 1..Len(kept) |-> IF kept[i][1] = CR THEN LF ELSE kept[i][1]]

\* Path.read_text() of an existing file
ReadText(file) == UniversalNewlines(file.data)

\* a file that holds text and can be read and written
TextFile(text) == [exists |-> TRUE, readable |-> TRUE, writable |-> "yes", data |-> text]

NoFile == [exists |-> FALSE, readable |-> FALSE, writable |-> "yes", data |-> << >>]

\* variant: a write_text that writes to a temporary file and renames it, so that
\* a failed write leaves the file as it was
WriteTextAtomic(file, text) ==
    IF file.writable = "yes" THEN [file |-> TextFile(text), error |-> ""]
    ELSE IF file.writable = "denied" THEN [file |-> file, error |-> "PermissionError"]
    ELSE [file |-> file, error |-> "OSError"]

\* Path.write_text(text) on the path of file: open(mode="w") creates or truncates
\* the file, then the text is written, "\n" as os.linesep.  The file afterwards
\* and the exception raised ("" if none).
WriteText(file, text) ==
    IF file.writable = "yes" THEN [file |-> TextFile(text), error |-> ""]
    ELSE IF file.writable = "denied" THEN [file |-> file, error |-> "PermissionError"]
    ELSE [file |-> [exists |-> TRUE, readable |-> TRUE, writable |-> "full",
                    data |-> << >>],
          error |-> "OSError"]

RECURSIVE FormatInt(_)
\* str(n) of a non-negative int, as the f-string {major} formats it
FormatInt(n) ==
    IF n < Len(DigitChars) THEN <<DigitChars[n + 1]>>
    ELSE FormatInt(n \div Len(DigitChars)) \o <<DigitChars[(n % Len(DigitChars)) + 1]>>

DigitValue(c) == (CHOOSE d \in 1..Len(DigitChars) : DigitChars[d] = c) - 1

RECURSIVE ParseInt(_)
\* int(group) of a non-empty run of digits
ParseInt(ds) ==
    IF Len(ds) = 1 THEN DigitValue(ds[1])
    ELSE ParseInt(Upto(ds, Len(ds))) * Len(DigitChars) + DigitValue(ds[Len(ds)])

\* f"{major}.{minor}.{patch}"
VersionStr(v) == FormatInt(v[1]) \o <<".">> \o FormatInt(v[2]) \o <<".">> \o FormatInt(v[3])

\* tuple(map(int, match.groups()))
GroupsToInts(groups) == <<ParseInt(groups[1]), ParseInt(groups[2]), ParseInt(groups[3])>>

\* Python's `$` without re.MULTILINE: at the end of the string, or just before a
\* newline that is the last character of the string
DollarAt(s, j) == j = Len(s) + 1 \/ (j = Len(s) /\ s[j] = LF)

\* variant: the pattern without its closing `$`, which matches a prefix
MatchTriplePrefix(s) ==
    LET e1 == RunEnd(s, 1, Digits)
    IN  IF e1 = 1 \/ e1 > Len(s) \/ s[e1] # "." THEN << >>
        ELSE LET e2 == RunEnd(s, e1 + 1, Digits)
             IN  IF e2 = e1 + 1 \/ e2 > Len(s) \/ s[e2] # "." THEN << >>
                 ELSE LET e3 == RunEnd(s, e2 + 1, Digits)
                      IN  IF e3 = e2 + 1 THEN << >>
                          ELSE <<SubSeq(s, 1, e1 - 1),
                                 SubSeq(s, e1 + 1, e2 - 1),
                                 SubSeq(s, e2 + 1, e3 - 1)>>

\* re.match(r"^(\d+)\.(\d+)\.(\d+)$", s): the three groups, or << >> for None
MatchTriple(s) ==
    LET e1 == RunEnd(s, 1, Digits)
    IN  IF e1 = 1 \/ e1 > Len(s) \/ s[e1] # "." THEN << >>
        ELSE LET e2 == RunEnd(s, e1 + 1, Digits)
             IN  IF e2 = e1 + 1 \/ e2 > Len(s) \/ s[e2] # "." THEN << >>
                 ELSE LET e3 == RunEnd(s, e2 + 1, Digits)
                      IN  IF e3 = e2 + 1 \/ ~DollarAt(s, e3) THEN << >>
                          ELSE <<SubSeq(s, 1, e1 - 1),
                                 SubSeq(s, e1 + 1, e2 - 1),
                                 SubSeq(s, e2 + 1, e3 - 1)>>

(***************************************************************************)
(* Literals of version_manager.py.                                         *)
(***************************************************************************)
\* get_current_version's default initial version
DEFAULT_VERSION == <<0, 1, 0>>

MAJOR ==
    <<"m","a","j","o","r">>

MINOR ==
    <<"m","i","n","o","r">>

PATCH ==
    <<"p","a","t","c","h">>

BumpTypes == {MAJOR, MINOR, PATCH}

\* the literal "## [Unreleased]" update_changelog looks for and splits at
UNRELEASED ==
    <<"#","#"," ","[","U","n","r","e","l","e","a","s","e","d","]">>

\* the pattern r"\n## \[" of the next section
NEXT_SECTION ==
    <<"\n","#","#"," ","[">>

\* line.startswith("##")
HEADING_MARK ==
    <<"#","#">>

\* the text of a new changelog, up to its "## [Unreleased]" heading
CHANGELOG_HEADER ==
    <<"#"," ","C","h","a","n","g","e","l","o","g","\n","\n","A","l","l"," ","n","o","t","a",
      "b","l","e"," ","c","h","a","n","g","e","s"," ","t","o"," ","t","h","i","s"," ","p",
      "r","o","j","e","c","t"," ","w","i","l","l"," ","b","e"," ","d","o","c","u","m","e",
      "n","t","e","d"," ","i","n"," ","t","h","i","s"," ","f","i","l","e",".","\n","\n","T",
      "h","e"," ","f","o","r","m","a","t"," ","i","s"," ","b","a","s","e","d"," ","o","n",
      " ","[","K","e","e","p"," ","a"," ","C","h","a","n","g","e","l","o","g","]","(","h",
      "t","t","p","s",":","/","/","k","e","e","p","a","c","h","a","n","g","e","l","o","g",
      ".","c","o","m","/","e","n","/","1",".","0",".","0","/",")",",","\n","a","n","d"," ",
      "t","h","i","s"," ","p","r","o","j","e","c","t"," ","a","d","h","e","r","e","s"," ",
      "t","o"," ","[","S","e","m","a","n","t","i","c"," ","V","e","r","s","i","o","n","i",
      "n","g","]","(","h","t","t","p","s",":","/","/","s","e","m","v","e","r",".","o","r",
      "g","/","s","p","e","c","/","v","2",".","0",".","0",".","h","t","m","l",")",".","\n",
      "\n">>

\* the pieces of the new_entry f-string
ENTRY_OPEN ==
    <<"\n","#","#"," ","[">>

ENTRY_DATE_SEP ==
    <<"]"," ","-"," ">>

ENTRY_CHANGED ==
    <<"\n","\n","#","#","#"," ","C","h","a","n","g","e","d","\n","-"," ">>

\* the pieces of r'version\s*=\s*"[^"]*"' and of its replacement
VERSION_KEY ==
    <<"v","e","r","s","i","o","n">>

VERSION_ASSIGN ==
    <<"v","e","r","s","i","o","n"," ","="," ","\"">>

QUOTE == "\""

(***************************************************************************)
(* Optional arguments: None, or a str.                                     *)
(***************************************************************************)
None == [some |-> FALSE, val |-> << >>]

Some(s) == [some |-> TRUE, val |-> s]

\* Python truthiness of an optional str: None and "" are falsy
Truthy(o) == o.some /\ o.val # << >>

(***************************************************************************)
(* VersionManager.get_current_version                                      *)
(***************************************************************************)
\* the triple get_current_version returns for a given VERSION file; a read that
\* raises is caught and answered with the default
get_current_version(file) ==
    IF ~file.exists THEN DEFAULT_VERSION
    ELSE IF ~file.readable THEN DEFAULT_VERSION
    ELSE LET match == MatchTriple(Strip(ReadText(file)))
         IN  IF match # << >> THEN GroupsToInts(match) ELSE DEFAULT_VERSION

(***************************************************************************)
(* VersionManager.set_version                                              *)
(***************************************************************************)
\* where a match of r'version\s*=\s*"[^"]*"' that starts at i ends (the index
\* after its closing quote), 0 if there is no match at i
VersionFieldEnd(s, i) ==
    IF s[i] # VERSION_KEY[1] \/ ~StartsWith(From(s, i), VERSION_KEY) THEN 0
    ELSE LET eq == RunEnd(s, i + Len(VERSION_KEY), Whitespace)
         IN  IF eq > Len(s) \/ s[eq] # "=" THEN 0
             ELSE LET q1 == RunEnd(s, eq + 1, Whitespace)
                  IN  IF q1 > Len(s) \/ s[q1] # QUOTE THEN 0
                      ELSE LET q2 == Min({j \in (q1 + 1)..(Len(s) + 1) :
                                            j = Len(s) + 1 \/ s[j] = QUOTE})
                           IN  IF q2 > Len(s) THEN 0 ELSE q2 + 1

RECURSIVE SubVersionFrom(_, _, _)
\* re.sub from position i on: every non-overlapping match, leftmost first
SubVersionFrom(s, i, repl) ==
    IF i > Len(s) THEN << >>
    ELSE LET e == VersionFieldEnd(s, i)
         IN  IF e # 0 THEN repl \o SubVersionFrom(s, e, repl)
             ELSE <<s[i]>> \o SubVersionFrom(s, i + 1, repl)

\* re.sub(r'version\s*=\s*"[^"]*"', f'version = "{version_str}"', content)
SubVersion(content, version_str) ==
    SubVersionFrom(content, 1, VERSION_ASSIGN \o version_str \o <<QUOTE>>)

\* the pyproject.toml part of set_version, inside its try/except Exception: the
\* file afterwards and the exception that was caught and printed as a warning
\* ("" if none)
SyncPyproject(file, version_str) ==
    IF ~file.exists THEN [file |-> file, warning |-> ""]
    ELSE IF ~file.readable THEN [file |-> file, warning |-> "UnicodeDecodeError"]
    ELSE LET w == WriteText(file, SubVersion(ReadText(file), version_str))
         IN  [file |-> w.file, warning |-> w.error]

\* variant: a set_version that refuses to move the version backward
set_version_monotonic(fs, v) ==
    LET current == get_current_version(fs.version)
        lower == \/ v[1] < current[1]
                 \/ v[1] = current[1] /\ v[2] < current[2]
                 \/ v[1] = current[1] /\ v[2] = current[2] /\ v[3] < current[3]
        w == WriteText(fs.version, VersionStr(v) \o <<LF>>)
        synced == SyncPyproject(fs.pyproject, VersionStr(v))
    IN  IF lower THEN [files |-> fs, error |-> "", warning |-> ""]
        ELSE IF w.error # ""
        THEN [files |-> [fs EXCEPT !.version = w.file], error |-> w.error, warning |-> ""]
        ELSE [files |-> [fs EXCEPT !.version = w.file, !.pyproject = synced.file],
              error |-> "", warning |-> synced.warning]

\* variant: a set_version that writes the version without the final newline
set_version_no_newline(fs, v) ==
    LET w == WriteText(fs.version, VersionStr(v))
        synced == SyncPyproject(fs.pyproject, VersionStr(v))
    IN  IF w.error # ""
        THEN [files |-> [fs EXCEPT !.version = w.file], error |-> w.error, warning |-> ""]
        ELSE [files |-> [fs EXCEPT !.version = w.file, !.pyproject = synced.file],
              error |-> "", warning |-> synced.warning]

\* variant: a set_version whose pyproject.toml failure is raised to the caller
set_version_strict_sync(fs, v) ==
    LET w == WriteText(fs.version, VersionStr(v) \o <<LF>>)
        synced == SyncPyproject(fs.pyproject, VersionStr(v))
    IN  IF w.error # ""
        THEN [files |-> [fs EXCEPT !.version = w.file], error |-> w.error, warning |-> ""]
        ELSE [files |-> [fs EXCEPT !.version = w.file, !.pyproject = synced.file],
              error |-> synced.warning, warning |-> ""]

\* variant: a set_version that synchronises pyproject.toml before it writes
\* VERSION
set_version_sync_first(fs, v) ==
    LET synced == SyncPyproject(fs.pyproject, VersionStr(v))
        w == WriteText(fs.version, VersionStr(v) \o <<LF>>)
    IN  IF w.error # ""
        THEN [files |-> [fs EXCEPT !.version = w.file, !.pyproject = synced.file],
              error |-> w.error, warning |-> ""]
        ELSE [files |-> [fs EXCEPT !.version = w.file, !.pyproject = synced.file],
              error |-> "", warning |-> synced.warning]

\* set_version(major, minor, patch) on the files fs: the files afterwards, the
\* exception raised ("" if none) and the warning printed ("" if none)
set_version(fs, v) ==
    LET w == WriteText(fs.version, VersionStr(v) \o <<LF>>)
        synced == SyncPyproject(fs.pyproject, VersionStr(v))
    IN  IF w.error # ""
        THEN [files |-> [fs EXCEPT !.version = w.file], error |-> w.error, warning |-> ""]
        ELSE [files |-> [fs EXCEPT !.version = w.file, !.pyproject = synced.file],
              error |-> "", warning |-> synced.warning]

(***************************************************************************)
(* VersionManager.bump_version: the arithmetic                             *)
(***************************************************************************)
\* variant: a bump that does not reset the lower components
BumpTripleKeepsLower(v, bump_type) ==
    IF bump_type = MAJOR THEN <<v[1] + 1, v[2], v[3]>>
    ELSE IF bump_type = MINOR THEN <<v[1], v[2] + 1, v[3]>>
    ELSE <<v[1], v[2], v[3] + 1>>

\* variant: a patch bump that leaves the version as it is
BumpTripleIdlePatch(v, bump_type) ==
    IF bump_type = MAJOR THEN <<v[1] + 1, 0, 0>>
    ELSE IF bump_type = MINOR THEN <<v[1], v[2] + 1, 0>>
    ELSE <<v[1], v[2], v[3]>>

\* the if/elif chain over bump_type, for a bump_type that is one of the three
BumpTriple(v, bump_type) ==
    IF bump_type = MAJOR THEN <<v[1] + 1, 0, 0>>
    ELSE IF bump_type = MINOR THEN <<v[1], v[2] + 1, 0>>
    ELSE <<v[1], v[2], v[3] + 1>>

(***************************************************************************)
(* VersionManager.update_changelog                                         *)
(***************************************************************************)
\* the new_entry f-string
NewEntry(version_str, date_str, entry) ==
    ENTRY_OPEN \o version_str \o ENTRY_DATE_SEP \o date_str \o ENTRY_CHANGED
        \o entry \o <<LF>>

\* variant: a created changelog without the Unreleased heading
CreateChangelogNoUnreleased(new_entry) ==
    CHANGELOG_HEADER \o new_entry \o <<LF>>

\* the changelog_content f-string of a changelog that did not exist
CreateChangelog(new_entry) ==
    CHANGELOG_HEADER \o UNRELEASED \o <<LF>> \o new_entry \o <<LF>>

\* the branch for a content that holds "## [Unreleased]": split at its first
\* occurrence, then before the next r"\n## \[" or at the end
InsertAfterUnreleased(content, new_entry) ==
    LET at == Find(content, UNRELEASED)
        parts0 == Upto(content, at)
        after_unreleased == From(content, at + Len(UNRELEASED))
        next_section == Find(after_unreleased, NEXT_SECTION)
    IN  IF next_section # 0
        THEN parts0 \o UNRELEASED \o Upto(after_unreleased, next_section)
                 \o new_entry \o From(after_unreleased, next_section)
        ELSE parts0 \o UNRELEASED \o after_unreleased \o new_entry

\* the loop over enumerate(lines): the 0-based index of the first line that
\* starts with "##" and contains "[", and 0 (its initial value) if there is none
InsertLine(lines) ==
    LET heads == {i \in 1..Len(lines) :
                    StartsWith(lines[i], HEADING_MARK) /\ Contains(lines[i], <<"[">>)}
    IN  IF heads = {} THEN 0 ELSE Min(heads) - 1

\* variant: without a heading line the entry goes to the top of the file
InsertAtFirstHeadingPrepend(content, new_entry) ==
    LET lines == SplitLines(content)
        insert_line == InsertLine(lines)
    IN  IF insert_line > 0
        THEN JoinLines(SubSeq(lines, 1, insert_line) \o <<Strip(new_entry)>>
                           \o SubSeq(lines, insert_line + 1, Len(lines)))
        ELSE new_entry \o content

\* the branch for a content without "## [Unreleased]"
InsertAtFirstHeading(content, new_entry) ==
    LET lines == SplitLines(content)
        insert_line == InsertLine(lines)
    IN  IF insert_line > 0
        THEN JoinLines(SubSeq(lines, 1, insert_line) \o <<Strip(new_entry)>>
                           \o SubSeq(lines, insert_line + 1, Len(lines)))
        ELSE content \o new_entry

\* variant: an entry the changelog already holds is not added again
InsertEntryDedup(content, new_entry) ==
    IF Contains(content, Strip(new_entry)) THEN content
    ELSE IF Contains(content, UNRELEASED) THEN InsertAfterUnreleased(content, new_entry)
    ELSE InsertAtFirstHeading(content, new_entry)

\* changelog_content for an existing changelog whose text reads as content
InsertEntry(content, new_entry) ==
    IF Contains(content, UNRELEASED) THEN InsertAfterUnreleased(content, new_entry)
    ELSE InsertAtFirstHeading(content, new_entry)

\* update_changelog(major, minor, patch, entry) on the files fs, on a day whose
\* date is date_str: the files afterwards and the exception raised ("" if none)
update_changelog(fs, v, entry, date_str) ==
    LET new_entry == NewEntry(VersionStr(v), date_str, entry)
    IN  IF ~fs.changelog.exists
        THEN LET w == WriteText(fs.changelog, CreateChangelog(new_entry))
             IN  [files |-> [fs EXCEPT !.changelog = w.file], error |-> w.error]
        ELSE IF ~fs.changelog.readable
        THEN [files |-> fs, error |-> "UnicodeDecodeError"]
        ELSE LET w == WriteText(fs.changelog,
                                InsertEntry(ReadText(fs.changelog), new_entry))
             IN  [files |-> [fs EXCEPT !.changelog = w.file], error |-> w.error]

(***************************************************************************)
(* VersionManager.bump_version                                             *)
(***************************************************************************)
\* variant: the bump type is validated only after the version was persisted
bump_version_write_first(fs, bump_type, changelog_entry, date_str) ==
    LET current == get_current_version(fs.version)
        new == IF bump_type \in BumpTypes THEN BumpTriple(current, bump_type) ELSE current
        written == set_version(fs, new)
    IN  IF written.error # ""
        THEN [files |-> written.files, value |-> << >>, error |-> written.error,
              warning |-> ""]
        ELSE IF bump_type \notin BumpTypes
        THEN [files |-> written.files, value |-> << >>, error |-> "ValueError",
              warning |-> written.warning]
        ELSE IF Truthy(changelog_entry)
        THEN LET logged == update_changelog(written.files, new, changelog_entry.val,
                                            date_str)
             IN  [files |-> logged.files,
                  value |-> IF logged.error = "" THEN new ELSE << >>,
                  error |-> logged.error, warning |-> written.warning]
        ELSE [files |-> written.files, value |-> new, error |-> "",
              warning |-> written.warning]

\* variant: a bump that puts VERSION back when the changelog step fails
bump_version_rollback(fs, bump_type, changelog_entry, date_str) ==
    LET current == get_current_version(fs.version)
    IN  IF bump_type \notin BumpTypes
        THEN [files |-> fs, value |-> << >>, error |-> "ValueError", warning |-> ""]
        ELSE LET new == BumpTriple(current, bump_type)
                 written == set_version(fs, new)
             IN  IF written.error # ""
                 THEN [files |-> written.files, value |-> << >>,
                       error |-> written.error, warning |-> ""]
                 ELSE IF Truthy(changelog_entry)
                 THEN LET logged == update_changelog(written.files, new,
                                                     changelog_entry.val, date_str)
                      IN  IF logged.error # ""
                          THEN [files |-> [logged.files EXCEPT !.version = fs.version],
                                value |-> << >>, error |-> logged.error,
                                warning |-> written.warning]
                          ELSE [files |-> logged.files, value |-> new, error |-> "",
                                warning |-> written.warning]
                 ELSE [files |-> written.files, value |-> new, error |-> "",
                       warning |-> written.warning]

\* variant: a bump that files the changelog entry under the version it read
bump_version_logs_current(fs, bump_type, changelog_entry, date_str) ==
    LET current == get_current_version(fs.version)
    IN  IF bump_type \notin BumpTypes
        THEN [files |-> fs, value |-> << >>, error |-> "ValueError", warning |-> ""]
        ELSE LET new == BumpTriple(current, bump_type)
                 written == set_version(fs, new)
             IN  IF written.error # ""
                 THEN [files |-> written.files, value |-> << >>,
                       error |-> written.error, warning |-> ""]
                 ELSE IF Truthy(changelog_entry)
                 THEN LET logged == update_changelog(written.files, current,
                                                     changelog_entry.val, date_str)
                      IN  [files |-> logged.files,
                           value |-> IF logged.error = "" THEN new ELSE << >>,
                           error |-> logged.error, warning |-> written.warning]
                 ELSE [files |-> written.files, value |-> new, error |-> "",
                       warning |-> written.warning]

\* bump_version(bump_type, changelog_entry): the files afterwards, the triple
\* returned (<< >> when it raises), the exception raised ("" if none) and the
\* warning printed ("" if none)
bump_version(fs, bump_type, changelog_entry, date_str) ==
    LET current == get_current_version(fs.version)
    IN  IF bump_type \notin BumpTypes
        THEN [files |-> fs, value |-> << >>, error |-> "ValueError", warning |-> ""]
        ELSE LET new == BumpTriple(current, bump_type)
                 written == set_version(fs, new)
             IN  IF written.error # ""
                 THEN [files |-> written.files, value |-> << >>,
                       error |-> written.error, warning |-> ""]
                 ELSE IF Truthy(changelog_entry)
                 THEN LET logged == update_changelog(written.files, new,
                                                     changelog_entry.val, date_str)
                      IN  [files |-> logged.files,
                           value |-> IF logged.error = "" THEN new ELSE << >>,
                           error |-> logged.error, warning |-> written.warning]
                 ELSE [files |-> written.files, value |-> new, error |-> "",
                       warning |-> written.warning]

(***************************************************************************)
(* VersionManager.create_git_tag                                           *)
(***************************************************************************)
\* the "v" of tag_name
TAG_PREFIX ==
    <<"v">>

\* the default tag message, before the version
RELEASE_MESSAGE ==
    <<"R","e","l","e","a","s","e"," ","v","e","r","s","i","o","n"," ">>

\* ["git", "rev-parse", "--git-dir"]
RevParseCmd == [cmd |-> "rev-parse", name |-> << >>, message |-> << >>]

\* ["git", "tag", "-a", tag_name, "-m", message]
TagCmd(tag_name, message) == [cmd |-> "tag", name |-> tag_name, message |-> message]

\* variant: a create_git_tag that passes an empty message on to git
create_git_tag_keeps_empty(g, v, message) ==
    LET version_str == VersionStr(v)
        tag_name == TAG_PREFIX \o version_str
        cmd == TagCmd(tag_name, IF message.some THEN message.val
                                ELSE RELEASE_MESSAGE \o version_str)
    IN  IF g.env = "missing"
        THEN [git |-> g, calls |-> << >>, warning |-> "Git not found in PATH"]
        ELSE IF g.env = "norepo"
        THEN [git |-> g, calls |-> <<RevParseCmd>>,
              warning |-> "Not in a git repository or git command failed"]
        ELSE IF tag_name \in g.tags
        THEN [git |-> g, calls |-> <<RevParseCmd, cmd>>,
              warning |-> "Not in a git repository or git command failed"]
        ELSE [git |-> [g EXCEPT !.tags = @ \cup {tag_name}],
              calls |-> <<RevParseCmd, cmd>>, warning |-> ""]

\* variant: a create_git_tag that goes on to `git tag` after a failed check
create_git_tag_unchecked(g, v, message) ==
    LET version_str == VersionStr(v)
        tag_name == TAG_PREFIX \o version_str
        cmd == TagCmd(tag_name, IF Truthy(message) THEN message.val
                                ELSE RELEASE_MESSAGE \o version_str)
    IN  IF g.env = "missing"
        THEN [git |-> g, calls |-> << >>, warning |-> "Git not found in PATH"]
        ELSE IF g.env = "norepo"
        THEN [git |-> g, calls |-> <<RevParseCmd, cmd>>,
              warning |-> "Not in a git repository or git command failed"]
        ELSE IF tag_name \in g.tags
        THEN [git |-> g, calls |-> <<RevParseCmd, cmd>>,
              warning |-> "Not in a git repository or git command failed"]
        ELSE [git |-> [g EXCEPT !.tags = @ \cup {tag_name}],
              calls |-> <<RevParseCmd, cmd>>, warning |-> ""]

\* create_git_tag(major, minor, patch, message) with the git g: the git
\* afterwards, the git commands that ran and the warning printed ("" if none).
\* Without a git executable subprocess.run raises FileNotFoundError before any
\* command runs; outside a repository rev-parse exits non-zero; in a repository
\* `git tag` exits non-zero when the tag exists.
create_git_tag(g, v, message) ==
    LET version_str == VersionStr(v)
        tag_name == TAG_PREFIX \o version_str
        cmd == TagCmd(tag_name, IF Truthy(message) THEN message.val
                                ELSE RELEASE_MESSAGE \o version_str)
    IN  IF g.env = "missing"
        THEN [git |-> g, calls |-> << >>, warning |-> "Git not found in PATH"]
        ELSE IF g.env = "norepo"
        THEN [git |-> g, calls |-> <<RevParseCmd>>,
              warning |-> "Not in a git repository or git command failed"]
        ELSE IF tag_name \in g.tags
        THEN [git |-> g, calls |-> <<RevParseCmd, cmd>>,
              warning |-> "Not in a git repository or git command failed"]
        ELSE [git |-> [g EXCEPT !.tags = @ \cup {tag_name}],
              calls |-> <<RevParseCmd, cmd>>, warning |-> ""]

(***************************************************************************)
(* main: the command line                                                  *)
(***************************************************************************)
\* the `current` branch of main: show_current_version reads the version and
\* tells whether CHANGELOG.md exists; nothing is written
main_current(fs) ==
    [files |-> fs, code |-> 0, value |-> get_current_version(fs.version)]

\* the `tag` branch of main: the tag message is args.type_or_version, and
\* args.message is not used; the branch ends without sys.exit, status 0
main_tag(fs, g, type_or_version, message) ==
    LET tagged == create_git_tag(g, get_current_version(fs.version), type_or_version)
    IN  [git |-> tagged.git, calls |-> tagged.calls, code |-> 0,
         warning |-> tagged.warning]

\* the `bump` branch of main: the files afterwards, the exit status and the
\* warning printed ("" if none); an exception ends in the handler that exits 1
main_bump(fs, type_or_version, message, date_str) ==
    IF ~Truthy(type_or_version) THEN [files |-> fs, code |-> 1, warning |-> ""]
    ELSE IF type_or_version.val \notin BumpTypes
    THEN [files |-> fs, code |-> 1, warning |-> ""]
    ELSE LET bumped == bump_version(fs, type_or_version.val, message, date_str)
         IN  [files |-> bumped.files, code |-> IF bumped.error = "" THEN 0 ELSE 1,
              warning |-> bumped.warning]

\* the `set` branch of main
main_set(fs, type_or_version) ==
    IF ~Truthy(type_or_version) THEN [files |-> fs, code |-> 1, warning |-> ""]
    ELSE LET match == MatchTriple(type_or_version.val)
         IN  IF match = << >> THEN [files |-> fs, code |-> 1, warning |-> ""]
             ELSE LET written == set_version(fs, GroupsToInts(match))
                  IN  [files |-> written.files,
                       code |-> IF written.error = "" THEN 0 ELSE 1,
                       warning |-> written.warning]

(***************************************************************************)
(* VersionManager.interactive_mode and its handlers                        *)
(***************************************************************************)
\* the session at one of its prompts
AtPrompt(at, kind) == [at |-> at, kind |-> kind, code |-> -1]

\* variant: a KeyboardInterrupt that ends the process the way an uncaught one does
OnKeyboardInterruptUncaught(sess) == [at |-> "exited", kind |-> << >>, code |-> 130]

\* the `except KeyboardInterrupt` arms: the one of the loop breaks out of it, and
\* interactive_mode and main return (status 0); the one of main calls sys.exit(0)
OnKeyboardInterrupt(sess) == [at |-> "exited", kind |-> << >>, code |-> 0]

\* the if/elif chain over choice = input(...).strip(): where the session goes
\* and the error printed ("" if none)
menu_choice(line) ==
    LET choice == Strip(line)
    IN  IF choice = <<"0">>
        THEN [session |-> [at |-> "exited", kind |-> << >>, code |-> 0], reported |-> ""]
        ELSE IF choice = <<"1">>
        THEN [session |-> AtPrompt("message", MAJOR), reported |-> ""]
        ELSE IF choice = <<"2">>
        THEN [session |-> AtPrompt("message", MINOR), reported |-> ""]
        ELSE IF choice = <<"3">>
        THEN [session |-> AtPrompt("message", PATCH), reported |-> ""]
        ELSE IF choice = <<"4">>
        THEN [session |-> AtPrompt("version", << >>), reported |-> ""]
        ELSE IF choice = <<"5">>
        THEN [session |-> AtPrompt("tag message", << >>), reported |-> ""]
        ELSE IF choice = <<"6">>
        THEN [session |-> AtPrompt("menu", << >>), reported |-> ""]
        ELSE [session |-> AtPrompt("menu", << >>), reported |-> "Invalid choice"]

\* message if message else None
OrNone(text) == IF text # << >> THEN Some(text) ELSE None

\* _handle_interactive_bump once the message was typed: the files afterwards,
\* the error printed ("" if none) and the warning printed
interactive_bump(fs, bump_type, line, date_str) ==
    LET bumped == bump_version(fs, bump_type, OrNone(Strip(line)), date_str)
    IN  [files |-> bumped.files, reported |-> bumped.error, warning |-> bumped.warning]

\* _handle_interactive_set once the version was typed
interactive_set(fs, line) ==
    LET match == MatchTriple(Strip(line))
    IN  IF match = << >>
        THEN [files |-> fs, reported |-> "Invalid version format", warning |-> ""]
        ELSE LET written == set_version(fs, GroupsToInts(match))
             IN  [files |-> written.files, reported |-> written.error,
                  warning |-> written.warning]

\* _handle_interactive_tag once the message was typed
interactive_tag(fs, g, line) ==
    create_git_tag(g, get_current_version(fs.version), OrNone(Strip(line)))

\* the files a KeyboardInterrupt may find while bump_version runs: none written
\* yet, VERSION written, set_version done, or all of it done
InterruptedBump(fs, bump_type, line, date_str) ==
    LET new == BumpTriple(get_current_version(fs.version), bump_type)
        w == WriteText(fs.version, VersionStr(new) \o <<LF>>)
    IN  {fs, [fs EXCEPT !.version = w.file], set_version(fs, new).files,
         interactive_bump(fs, bump_type, line, date_str).files}

\* the files a KeyboardInterrupt may find while set_version runs
InterruptedSet(fs, line) ==
    LET match == MatchTriple(Strip(line))
        w == WriteText(fs.version, VersionStr(GroupsToInts(match)) \o <<LF>>)
    IN  IF match = << >> THEN {fs}
        ELSE {fs, [fs EXCEPT !.version = w.file], interactive_set(fs, line).files}

\* the git a KeyboardInterrupt may find while create_git_tag runs, and the
\* commands that had run
InterruptedTag(fs, g, line) ==
    LET tagged == interactive_tag(fs, g, line)
    IN  {[git |-> g, calls |-> SubSeq(tagged.calls, 1, n)] :
           n \in 0..(Len(tagged.calls) - 1)}
        \cup {[git |-> tagged.git, calls |-> tagged.calls]}

(***************************************************************************)
(* Inputs: the files a project directory may hold when the program starts, *)
(* and the arguments it may be called with.                                *)
(***************************************************************************)
\* contents of VERSION: written by set_version, edited by hand, or garbled
VersionTexts ==
    { <<"0",".","1",".","0","\n">>,
      <<"1",".","2",".","3","\n">>,
      <<"9",".","9",".","9","\n">>,
      <<"1",".","9",".","9","9","\n">>,
      <<"1","0",".","0",".","7","\n">>,
      <<"0","1",".","0","2",".","0","3","\n">>,
      <<" "," ","1",".","2",".","3"," ","\n">>,
      <<"1",".","2",".","3","\r","\n">>,
      <<"1",".","2",".","3">>,
      << >>,
      <<"1",".","2">>,
      <<"v","1",".","2",".","3">>,
      <<"1",".","2",".","3","-","r","c","1">>,
      <<"1",".","2",".","3","\n","4",".","5",".","6","\n">>,
      <<"1",".","2",".","3",".","4">>,
      <<"1",".",".","3","\n">> }

UnreadableFile == [exists |-> TRUE, readable |-> FALSE, writable |-> "yes", data |-> << >>]

VersionFiles == {NoFile, UnreadableFile} \cup {TextFile(t) : t \in VersionTexts}

\* a pyproject.toml with a version field and other settings
PyprojectText ==
    <<"n","a","m","e"," ","="," ","\"","x","\"","\n","v","e","r","s","i","o","n"," ","="," ","\"","0",".","1",".","0","\"","\n">>

PyprojectFiles == {NoFile, TextFile(PyprojectText)}

\* a pyproject.toml with a version field and tool settings named after a version
PyprojectToolsText ==
    <<"v","e","r","s","i","o","n"," ","="," ","\"","0",".","1",".","0","\"","\n","p","y",
      "t","h","o","n","_","v","e","r","s","i","o","n"," ","="," ","\"","3",".","1","1","\"",
      "\n","t","a","r","g","e","t","-","v","e","r","s","i","o","n"," ","="," ","\"","p","y",
      "3","1","1","\"","\n">>

\* the same file on a path where write_text() ends as w
WithWritable(file, w) == [file EXCEPT !.writable = w]

\* a changelog with an Unreleased section and one released section
ChangelogText ==
    <<"#"," ","C","h","a","n","g","e","l","o","g","\n","\n","#","#"," ","[","U","n","r","e","l","e","a","s","e","d","]","\n","\n","#","#"," ","[","1",".","0",".","0","]"," ","-"," ","2","0","2","4","-","0","1","-","0","1","\n","-"," ","o","l","d","\n">>

\* the lines an initial changelog document is made of
DocLines ==
    << <<"#"," ","C","h","a","n","g","e","l","o","g">>,
       << >>,
       <<"#","#"," ","[","U","n","r","e","l","e","a","s","e","d","]">>,
       <<"#","#"," ","[","1",".","0",".","0","]"," ","-"," ","2","0","2","4","-","0","1","-","0","1">>,
       <<"-"," ","o","l","d">> >>

\* the line endings of an initial changelog document
LineEndings == {<<LF>>, <<CR, LF>>}

RECURSIVE JoinWith(_, _)
JoinWith(lines, eol) ==
    IF Len(lines) = 1 THEN DocLines[lines[1]]
    ELSE DocLines[lines[1]] \o eol \o JoinWith(Tail(lines), eol)

\* the initial changelog documents: 1..MaxLines lines of DocLines
ChangelogTexts ==
    UNION {{JoinWith(ls, eol) : ls \in [1..n -> 1..Len(DocLines)], eol \in LineEndings} :
           n \in 1..MaxLines}

\* the files of a project directory in which writes may fail
FaultyVersionFiles ==
    {NoFile} \cup {WithWritable(TextFile(<<"1",".","2",".","3","\n">>), w) :
                      w \in {"yes", "denied", "full"}}

FaultyPyprojectFiles ==
    {NoFile, UnreadableFile, TextFile(PyprojectToolsText)}
        \cup {WithWritable(TextFile(PyprojectText), w) : w \in {"denied", "full"}}

FaultyChangelogFiles ==
    {NoFile, WithWritable(NoFile, "full")}
        \cup {WithWritable(TextFile(ChangelogText), w) : w \in {"yes", "denied", "full"}}

\* the git a project directory may be used with: inside a repository (without
\* tags, or with a tag v1.2.3), outside any repository, or no git executable
Gits ==
    {[env |-> "repo", tags |-> {}],
     [env |-> "repo", tags |-> {<<"v","1",".","2",".","3">>}],
     [env |-> "norepo", tags |-> {}],
     [env |-> "missing", tags |-> {}]}

\* lines typed at the menu prompt
MenuLines ==
    { <<"0">>, <<"1">>, <<"2">>, <<"3">>, <<"4">>, <<"5">>, <<"6">>, <<"7">>,
      <<" ","0"," ">>, << >> }

\* lines typed at the prompt for a changelog or tag message
MessageLines ==
    { << >>, <<"m">>, <<" ","m"," ">> }

\* lines typed at the prompt for a version
VersionLines ==
    { <<"1",".","2",".","3">>, <<" ","2",".","0",".","0"," ">>, <<"1",".","2">>, << >> }

\* what datetime.now().strftime("%Y-%m-%d") may return
Dates ==
    { <<"2","0","2","4","-","0","1","-","0","1">>,
      <<"2","0","2","4","-","0","1","-","0","2">> }

\* the date of a call that never reaches update_changelog
NoDate == << >>

BOGUS ==
    <<"b","o","g","u","s">>

\* changelog messages
Messages ==
    { <<"m">>,
      <<"f","i","x">> }

\* the triples set_version and update_changelog are called with
SomeTriples == {<<0, 0, 0>>, <<1, 2, 3>>, <<10, 0, 7>>}

\* the version argument of `set`
SetArgs ==
    { <<"1",".","2",".","3">>,
      <<"1","0",".","0",".","7">>,
      <<"1",".","2">>,
      <<"1",".","2",".","3",".","4">>,
      <<"v","1",".","2",".","3">>,
      << >>,
      <<"1",".","2",".","3","\n">>,
      <<"1",".","2",".","3"," ">> }

(***************************************************************************)
(* State.                                                                  *)
(***************************************************************************)
Files == [version |-> versionFile, pyproject |-> pyprojectFile, changelog |-> changelogFile]

Commit(fs) ==
    /\ versionFile' = fs.version
    /\ pyprojectFile' = fs.pyproject
    /\ changelogFile' = fs.changelog

\* an operation is invoked: what it was called with, and the files it found
Record(op, arg, message, triple, date_str) ==
    /\ call' = [op |-> op, arg |-> arg, message |-> message, triple |-> triple,
                date |-> date_str]
    /\ before' = Files
    /\ nOps' = nOps + 1
    /\ UNCHANGED <<client, sourceFile>>

\* an operation of the API or the command line that runs no git command
Invoke(op, arg, message, triple, date_str) ==
    /\ Record(op, arg, message, triple, date_str)
    /\ git' = git
    /\ gitCalls' = << >>
    /\ UNCHANGED session

\* an API call ends by returning a value or by raising, and may have printed a
\* warning
ApiOutcome(value, error, warning) ==
    [status |-> IF error = "" THEN "returned" ELSE "raised",
     value |-> value, error |-> error, code |-> -1, warning |-> warning]

\* a command ends with an exit status
ExitOutcome(code, warning) ==
    [status |-> "exited", value |-> << >>, error |-> "", code |-> code,
     warning |-> warning]

(***************************************************************************)
(* mod_net_client/core/client.py: ModNetClient.                            *)
(***************************************************************************)
DEFAULT_IPFS_API_URL == "http://localhost:5001"

DEFAULT_IPFS_GATEWAY_URL == "http://localhost:8080"

\* no ModNetClient has been constructed
NoClient ==
    [constructed |-> FALSE, substrate_url |-> "", ipfs_api_url |-> "",
     ipfs_gateway_url |-> ""]

\* ModNetClient(substrate_url, ipfs_api_url=..., ipfs_gateway_url=...);
\* in `url or default`, None and "" are falsy
NewModNetClient(substrate_url, ipfs_api_url, ipfs_gateway_url) ==
    LET OrDefault(url, default) == IF url.some /\ url.val # "" THEN url.val ELSE default
    IN  [constructed |-> TRUE,
         substrate_url |-> substrate_url,
         ipfs_api_url |-> OrDefault(ipfs_api_url, DEFAULT_IPFS_API_URL),
         ipfs_gateway_url |-> OrDefault(ipfs_gateway_url, DEFAULT_IPFS_GATEWAY_URL)]

\* what self.substrate.get_chain_head() can raise that `except Exception`
\* catches: classes derived from Exception
ExceptionClasses == {"Exception", "ConnectionRefusedError", "SubstrateRequestException"}

\* what it can raise that derives from BaseException only
BaseExceptionClasses == {"KeyboardInterrupt", "SystemExit"}

\* variant: health_check without its try/except
health_check_unguarded(c, head) ==
    [client |-> c, value |-> head = "", error |-> head]

\* client.health_check(), head being how get_chain_head() ended: the client
\* afterwards, the value returned and the exception raised ("" if none)
health_check(c, head) ==
    IF head = "" THEN [client |-> c, value |-> TRUE, error |-> ""]
    ELSE IF head \in ExceptionClasses THEN [client |-> c, value |-> FALSE, error |-> ""]
    ELSE [client |-> c, value |-> FALSE, error |-> head]

\* no file has been handed to the fixer
NoSource == [path |-> << >>, file |-> NoFile]

(***************************************************************************)
(* fix_hardcoded_values.py: HardcodedValueFixer.                           *)
(***************************************************************************)
\* self.replacements, in the order of the dict: each pattern is a sequence of
\* character sets (every pattern of the table matches texts of one length),
\* each replacement a text; AnyQuote is the class ['\"] of the os.getenv patterns
Replacements ==
    LET AnyQuote == {"'", "\""}
    IN  <<
          [pattern |->
             <<{"\""},{"h"},{"t"},{"t"},{"p"},{":"},{"/"},{"/"},{"l"},{"o"},{"c"},{"a"},{"l"},{"h"},
               {"o"},{"s"},{"t"},{":"},{"5"},{"0"},{"0"},{"1"},{"\""}>>,
           replacement |->
             <<"c","o","n","f","i","g",".","i","p","f","s",".","a","p","i","_","u","r","l">>],
          [pattern |->
             <<{"\""},{"h"},{"t"},{"t"},{"p"},{":"},{"/"},{"/"},{"l"},{"o"},{"c"},{"a"},{"l"},{"h"},
               {"o"},{"s"},{"t"},{":"},{"8"},{"0"},{"8"},{"0"},{"\""}>>,
           replacement |->
             <<"c","o","n","f","i","g",".","i","p","f","s",".","g","a","t","e","w","a","y","_",
               "u","r","l">>],
          [pattern |->
             <<{"\""},{"h"},{"t"},{"t"},{"p"},{":"},{"/"},{"/"},{"l"},{"o"},{"c"},{"a"},{"l"},{"h"},
               {"o"},{"s"},{"t"},{":"},{"8"},{"0"},{"0"},{"0"},{"\""}>>,
           replacement |->
             <<"c","o","n","f","i","g",".","c","o","m","m","u","n","e","_","i","p","f","s",".",
               "b","a","s","e","_","u","r","l">>],
          [pattern |->
             <<{"\""},{"h"},{"t"},{"t"},{"p"},{":"},{"/"},{"/"},{"l"},{"o"},{"c"},{"a"},{"l"},{"h"},
               {"o"},{"s"},{"t"},{":"},{"8"},{"0"},{"0"},{"4"},{"\""}>>,
           replacement |->
             <<"c","o","n","f","i","g",".","t","e","s","t",".","t","e","s","t","_","m","o","d",
               "u","l","e","_","r","e","g","i","s","t","r","y","_","u","r","l">>],
          [pattern |->
             <<{"\""},{"h"},{"t"},{"t"},{"p"},{":"},{"/"},{"/"},{"1"},{"2"},{"7"},{"."},{"0"},{"."},
               {"0"},{"."},{"1"},{":"},{"9"},{"9"},{"3"},{"3"},{"\""}>>,
           replacement |->
             <<"c","o","n","f","i","g",".","s","u","b","s","t","r","a","t","e",".","h","t","t",
               "p","_","u","r","l">>],
          [pattern |->
             <<{"\""},{"w"},{"s"},{":"},{"/"},{"/"},{"1"},{"2"},{"7"},{"."},{"0"},{"."},{"0"},{"."},
               {"1"},{":"},{"9"},{"9"},{"4"},{"4"},{"\""}>>,
           replacement |->
             <<"c","o","n","f","i","g",".","s","u","b","s","t","r","a","t","e",".","w","s","_",
               "u","r","l">>],
          [pattern |->
             <<{"\""},{"h"},{"t"},{"t"},{"p"},{":"},{"/"},{"/"},{"1"},{"2"},{"7"},{"."},{"0"},{"."},
               {"0"},{"."},{"1"},{":"},{"9"},{"9"},{"4"},{"4"},{"\""}>>,
           replacement |->
             <<"c","o","n","f","i","g",".","s","u","b","s","t","r","a","t","e",".","h","t","t",
               "p","_","u","r","l">>],
          [pattern |->
             <<{"o"},{"s"},{"."},{"g"},{"e"},{"t"},{"e"},{"n"},{"v"},{"("},AnyQuote,{"P"},{"O"},
               {"R"},{"T"},AnyQuote,{","},{" "},AnyQuote,{"8"},{"0"},{"0"},{"0"},AnyQuote,{")"}>>,
           replacement |->
             <<"o","s",".","g","e","t","e","n","v","(","'","P","O","R","T","'",","," ","s","t",
               "r","(","c","o","n","f","i","g",".","c","o","m","m","u","n","e","_","i","p","f",
               "s",".","p","o","r","t",")",")">>],
          [pattern |->
             <<{"o"},{"s"},{"."},{"g"},{"e"},{"t"},{"e"},{"n"},{"v"},{"("},AnyQuote,{"I"},{"P"},
               {"F"},{"S"},{"_"},{"A"},{"P"},{"I"},{"_"},{"P"},{"O"},{"R"},{"T"},AnyQuote,{","},
               {" "},AnyQuote,{"5"},{"0"},{"0"},{"1"},AnyQuote,{")"}>>,
           replacement |->
             <<"o","s",".","g","e","t","e","n","v","(","'","I","P","F","S","_","A","P","I","_",
               "P","O","R","T","'",","," ","s","t","r","(","c","o","n","f","i","g",".","i","p",
               "f","s",".","a","p","i","_","p","o","r","t",")",")">>],
          [pattern |->
             <<{"o"},{"s"},{"."},{"g"},{"e"},{"t"},{"e"},{"n"},{"v"},{"("},AnyQuote,{"I"},{"P"},
               {"F"},{"S"},{"_"},{"G"},{"A"},{"T"},{"E"},{"W"},{"A"},{"Y"},{"_"},{"P"},{"O"},{"R"},
               {"T"},AnyQuote,{","},{" "},AnyQuote,{"8"},{"0"},{"8"},{"0"},AnyQuote,{")"}>>,
           replacement |->
             <<"o","s",".","g","e","t","e","n","v","(","'","I","P","F","S","_","G","A","T","E",
               "W","A","Y","_","P","O","R","T","'",","," ","s","t","r","(","c","o","n","f","i",
               "g",".","i","p","f","s",".","g","a","t","e","w","a","y","_","p","o","r","t",")",
               ")">>],
          [pattern |->
             <<{"\""},{"/"},{"/"},{"A"},{"l"},{"i"},{"c"},{"e"},{"\""}>>,
           replacement |->
             <<"c","o","n","f","i","g",".","s","u","b","s","t","r","a","t","e",".","k","e","y",
               "p","a","i","r","_","s","e","e","d">>],
          [pattern |->
             <<{"'"},{"/"},{"/"},{"A"},{"l"},{"i"},{"c"},{"e"},{"'"}>>,
           replacement |->
             <<"c","o","n","f","i","g",".","s","u","b","s","t","r","a","t","e",".","k","e","y",
               "p","a","i","r","_","s","e","e","d">>] >>

CONFIG_IMPORT ==
    <<"f","r","o","m"," ","c","o","n","f","i","g"," ","i","m","p","o","r","t"," ","g","e","t",
      "_","c","o","n","f","i","g">>

CONFIG_CALL ==
    <<"c","o","n","f","i","g"," ","="," ","g","e","t","_","c","o","n","f","i","g","(",")">>

\* self.exclude_patterns: each is r"<head>.*<tail>$", the head empty for the
\* patterns that only name the end of the path
ExcludePatterns ==
    << [head |-> <<"t","e","s","t","_">>, tail |-> <<".","p","y">>],
       [head |-> << >>, tail |-> <<"_","t","e","s","t",".","p","y">>],
       [head |-> <<"t","e","s","t","s","/">>, tail |-> <<".","p","y">>],
       [head |-> << >>,
        tail |-> <<"a","u","d","i","t","_","c","o","d","e","b","a","s","e",".","p","y">>],
       [head |-> << >>,
        tail |-> <<"f","i","x","_","h","a","r","d","c","o","d","e","d","_","v","a","l","u","e","s",".","p","y">>],
       [head |-> << >>, tail |-> <<"c","o","n","f","i","g",".","p","y">>],
       [head |-> << >>,
        tail |-> <<"s","u","b","s","t","r","a","t","e","_","c","o","n","f","i","g",".","p","y">>] >>

\* the pattern matches the text s at the 1-based index i
MatchesAt(s, i, pattern) ==
    /\ i + Len(pattern) - 1 <= Len(s)
    /\ \A k \in 1..Len(pattern) : s[i + k - 1] \in pattern[k]

\* re.search(pattern, content)
Search(pattern, content) ==
    \E i \in 1..Len(content) : MatchesAt(content, i, pattern)

RECURSIVE SubFrom(_, _, _, _)
\* re.sub(pattern, replacement, content) from the index i on: the leftmost
\* matches, which do not overlap
SubFrom(content, i, pattern, replacement) ==
    IF i > Len(content) THEN << >>
    ELSE IF MatchesAt(content, i, pattern)
    THEN replacement \o SubFrom(content, i + Len(pattern), pattern, replacement)
    ELSE <<content[i]>> \o SubFrom(content, i + 1, pattern, replacement)

\* str.lower()
Lower(s) ==
    LET upper == <<"A","B","C","D","E","F","G","H","I","J","K","L","M",
                   "N","O","P","Q","R","S","T","U","V","W","X","Y","Z">>
        lower == <<"a","b","c","d","e","f","g","h","i","j","k","l","m",
                   "n","o","p","q","r","s","t","u","v","w","x","y","z">>
    IN  [i \in 1..Len(s) |->
           IF \E k \in 1..Len(upper) : upper[k] = s[i]
           THEN lower[CHOOSE k \in 1..Len(upper) : upper[k] = s[i]]
           ELSE s[i]]

\* fixer.should_exclude_file(file_path): re.search of each exclude pattern in
\* the path, `.` matching no newline
should_exclude_file(path) ==
    LET OccursAt(i, p) == i + Len(p) - 1 <= Len(path) /\ SubSeq(path, i, i + Len(p) - 1) = p
    IN  \E n \in 1..Len(ExcludePatterns) :
           LET head == ExcludePatterns[n].head
               tail == ExcludePatterns[n].tail
           IN  \E i \in 1..(Len(path) + 1) :
                  /\ OccursAt(i, head)
                  /\ \E j \in (i + Len(head))..(Len(path) + 1) :
                        /\ OccursAt(j, tail)
                        /\ DollarAt(path, j + Len(tail))
                        /\ \A k \in (i + Len(head))..(j - 1) : path[k] # LF

\* fixer.needs_config_import(content)
needs_config_import(content) ==
    /\ ~Contains(content, CONFIG_IMPORT)
    /\ ~Contains(content, <<"i","m","p","o","r","t"," ","c","o","n","f","i","g">>)

RECURSIVE ImportIndexFrom(_, _, _)
\* the loop of add_config_import from the 1-based line i on: import_index
ImportIndexFrom(lines, i, import_index) ==
    IF i > Len(lines) THEN import_index
    ELSE IF \/ StartsWith(lines[i], <<"i","m","p","o","r","t"," ">>)
            \/ StartsWith(lines[i], <<"f","r","o","m"," ">>)
    THEN ImportIndexFrom(lines, i + 1, i)
    ELSE IF Strip(lines[i]) = << >> /\ import_index > 0
    THEN ImportIndexFrom(lines, i + 1, import_index)
    ELSE IF import_index > 0 THEN import_index
    ELSE ImportIndexFrom(lines, i + 1, import_index)

\* fixer.add_config_import(content)
add_config_import(content) ==
    LET lines == SplitLines(content)
        import_index == ImportIndexFrom(lines, 1, 0)
    IN  JoinLines(SubSeq(lines, 1, import_index) \o <<CONFIG_IMPORT>>
                      \o SubSeq(lines, import_index + 1, Len(lines)))

\* lines 112-140 of fix_file: `config = get_config()` goes into the first
\* definition of the file if the 50 lines from it on use `config.`, before the
\* first of its next 9 lines that is code.  The content afterwards, and whether
\* the line was added.
AddConfigCall(content) ==
    LET lines == SplitLines(content)
        StartsDefinition(line) ==
            \/ StartsWith(Strip(line), <<"d","e","f"," ">>)
            \/ StartsWith(Strip(line), <<"c","l","a","s","s"," ">>)
            \/ StartsWith(Strip(line), <<"a","s","y","n","c"," ","d","e","f"," ">>)
        TakesConfigCall(line) ==
            /\ Strip(line) # << >>
            /\ ~StartsWith(Strip(line), <<"\"","\"","\"">>)
            /\ ~StartsWith(Strip(line), <<"'","'","'">>)
            /\ ~Contains(line, CONFIG_CALL)
        Indent(line) == Min({k \in 1..(Len(line) + 1) :
                               k = Len(line) + 1 \/ line[k] \notin Whitespace}) - 1
        defs == {i \in 1..Len(lines) : StartsDefinition(lines[i])}
    IN  IF defs = {} THEN [content |-> content, added |-> FALSE]
        ELSE LET i == Min(defs)
                 function_content == JoinLines(SubSeq(lines, i, Min({Len(lines), i + 49})))
                 body == {j \in (i + 1)..Min({Len(lines), i + 9}) : TakesConfigCall(lines[j])}
             IN  IF ~Contains(function_content, <<"c","o","n","f","i","g",".">>) \/ body = {}
                 THEN [content |-> content, added |-> FALSE]
                 ELSE LET j == Min(body)
                          config_line == [k \in 1..Indent(lines[j]) |-> " "] \o CONFIG_CALL
                      IN  [content |-> JoinLines(SubSeq(lines, 1, j - 1) \o <<config_line>>
                                                     \o SubSeq(lines, j, Len(lines))),
                           added |-> TRUE]

RECURSIVE ReplaceFrom(_, _, _)
\* the loop over self.replacements.items() from the k-th pattern on, in the file
\* at path: content, changes and needs_config afterwards
ReplaceFrom(k, st, path) ==
    IF k > Len(Replacements) THEN st
    ELSE LET pattern == Replacements[k].pattern
             replacement == Replacements[k].replacement
             content == SubFrom(st.content, 1, pattern, replacement)
             turn == IF ~Search(pattern, st.content) THEN st
                     ELSE IF /\ Contains(replacement, <<"/","/","A","l","i","c","e">>)
                             /\ Contains(Lower(path), <<"t","e","s","t">>)
                     THEN st
                     ELSE IF content # st.content
                     THEN [content |-> content,
                           changes |-> Append(st.changes,
                                              [what |-> "Replaced", pattern |-> k]),
                           needs_config |-> TRUE]
                     ELSE st
         IN  CHOOSE done \in {ReplaceFrom(k + 1, next, path) : next \in {turn}} : TRUE

\* what fix_file makes of the content it has read from the file at path: the
\* replacements, then the import (lines 106-109), then the call (lines 111-140)
Rewrite(original_content, path) ==
    LET ImportStep(st) ==
            IF st.needs_config /\ needs_config_import(st.content)
            THEN [st EXCEPT !.content = add_config_import(st.content),
                            !.changes = Append(st.changes,
                                               [what |-> "Added config import",
                                                pattern |-> 0])]
            ELSE st
        ConfigCallStep(st) ==
            IF st.needs_config /\ ~Contains(st.content, CONFIG_CALL)
            THEN LET r == AddConfigCall(st.content)
                 IN  IF r.added
                     THEN [st EXCEPT !.content = r.content,
                                     !.changes = Append(st.changes,
                                                        [what |-> "Added config = get_config() call",
                                                         pattern |-> 0])]
                     ELSE st
            ELSE st
    IN  CHOOSE done \in
            {ConfigCallStep(imported) :
                imported \in {ImportStep(replaced) :
                    replaced \in {ReplaceFrom(1, [content |-> original_content,
                                                  changes |-> << >>,
                                                  needs_config |-> FALSE], path)}}} : TRUE

\* fixer.fix_file(file_path) on the file src.file at the path src.path: the file
\* afterwards, the pair returned and the exception raised ("" if none)
fix_file(src) ==
    IF should_exclude_file(src.path)
    THEN [file |-> src.file, changed |-> FALSE, changes |-> << >>, error |-> ""]
    ELSE IF ~src.file.exists
    THEN [file |-> src.file, changed |-> FALSE, changes |-> << >>,
          error |-> "FileNotFoundError"]
    ELSE IF ~src.file.readable
    THEN [file |-> src.file, changed |-> FALSE, changes |-> << >>, error |-> ""]
    ELSE LET original_content == ReadText(src.file)
             rewritten == Rewrite(original_content, src.path)
         IN  IF rewritten.content # original_content
             THEN LET w == WriteText(src.file, rewritten.content)
                  IN  [file |-> w.file, changed |-> w.error = "",
                       changes |-> IF w.error = "" THEN rewritten.changes ELSE << >>,
                       error |-> w.error]
             ELSE [file |-> src.file, changed |-> FALSE, changes |-> << >>, error |-> ""]

NoCall == [op |-> "none", arg |-> None, message |-> None, triple |-> << >>, date |-> NoDate]

\* nothing has been invoked yet
InitRecord ==
    /\ call = NoCall
    /\ outcome = [status |-> "none", value |-> << >>, error |-> "", code |-> -1,
                  warning |-> ""]
    /\ before = Files
    /\ nOps = 0
    /\ gitCalls = << >>

\* the version manager runs without a chain client and without the fixer
InitCommon ==
    /\ InitRecord
    /\ client = NoClient
    /\ sourceFile = NoSource

\* a host without git
NoGit == [env |-> "missing", tags |-> {}]

\* no interactive session
NoSession == [at |-> "none", kind |-> << >>, code |-> -1]

\* the version-store specification starts from any VERSION file
Init ==
    /\ versionFile \in VersionFiles
    /\ pyprojectFile \in PyprojectFiles
    /\ changelogFile \in {NoFile, UnreadableFile, TextFile(ChangelogText)}
    /\ git = NoGit
    /\ session = NoSession
    /\ InitCommon

\* the changelog specification starts from any changelog document
InitChangelog ==
    /\ versionFile = NoFile
    /\ pyprojectFile = NoFile
    /\ changelogFile \in {NoFile, UnreadableFile} \cup {TextFile(t) : t \in ChangelogTexts}
    /\ git = NoGit
    /\ session = NoSession
    /\ InitCommon

\* the fault specification starts from a directory in which writes may fail
InitFaults ==
    /\ versionFile \in FaultyVersionFiles
    /\ pyprojectFile \in FaultyPyprojectFiles
    /\ changelogFile \in FaultyChangelogFiles
    /\ git = NoGit
    /\ session = NoSession
    /\ InitCommon

\* the sequence specification starts from a VERSION that is missing, garbled,
\* unreadable or valid
InitSequence ==
    /\ versionFile \in {NoFile, UnreadableFile,
                         TextFile(<<"v","1",".","2",".","3">>),
                         TextFile(<<"1",".","2",".","3">>),
                         TextFile(<<"1",".","9",".","9","9","\n">>)}
    /\ pyprojectFile = NoFile
    /\ changelogFile = NoFile
    /\ git = [env |-> "repo", tags |-> {}]
    /\ session = NoSession
    /\ InitCommon

\* the tag specification starts from any VERSION file and any git
InitTag ==
    /\ versionFile \in VersionFiles
    /\ pyprojectFile = NoFile
    /\ changelogFile = NoFile
    /\ git \in Gits
    /\ session = NoSession
    /\ InitCommon

\* the interactive specification starts as main does when given no command
InitInteractive ==
    /\ versionFile \in {WithWritable(TextFile(<<"1",".","2",".","3","\n">>), w) :
                           w \in {"yes", "denied"}}
    /\ pyprojectFile = NoFile
    /\ changelogFile \in {NoFile, WithWritable(NoFile, "full")}
    /\ git \in {[env |-> "repo", tags |-> {}], [env |-> "norepo", tags |-> {}]}
    /\ session = NoSession
    /\ InitCommon

DatesFor(message) == IF Truthy(message) THEN Dates ELSE {NoDate}

(***************************************************************************)
(* Operations.                                                             *)
(***************************************************************************)
\* vm.get_current_version()
ApiGetCurrentVersion ==
    /\ nOps < MaxOps
    /\ Commit(Files)
    /\ outcome' = ApiOutcome(get_current_version(versionFile), "", "")
    /\ Invoke("get_current_version", None, None, << >>, NoDate)

\* vm.set_version(major, minor, patch)
ApiSetVersion ==
    /\ nOps < MaxOps
    /\ \E v \in SomeTriples :
         \E r \in {set_version(Files, v)} :
             /\ Commit(r.files)
             /\ outcome' = ApiOutcome(<< >>, r.error, r.warning)
             /\ Invoke("set_version", None, None, v, NoDate)

\* vm.bump_version(bump_type, changelog_entry)
ApiBumpVersion ==
    /\ nOps < MaxOps
    /\ \E bump_type \in BumpTypes \cup {BOGUS, << >>},
          changelog_entry \in {None, Some(<< >>)} \cup {Some(m) : m \in Messages} :
         \E date_str \in DatesFor(changelog_entry) :
           \E r \in {bump_version(Files, bump_type, changelog_entry, date_str)} :
               /\ Commit(r.files)
               /\ outcome' = ApiOutcome(r.value, r.error, r.warning)
               /\ Invoke("bump_version", Some(bump_type), changelog_entry, << >>, date_str)

\* vm.update_changelog(major, minor, patch, entry)
ApiUpdateChangelog ==
    /\ nOps < MaxInserts
    /\ \E v \in {<<1, 2, 3>>}, entry \in Messages, date_str \in Dates :
         \E r \in {update_changelog(Files, v, entry, date_str)} :
             /\ Commit(r.files)
             /\ outcome' = ApiOutcome(<< >>, r.error, "")
             /\ Invoke("update_changelog", None, Some(entry), v, date_str)

\* vm.update_changelog(major, minor, patch, entry), the empty entry included
ApiUpdateChangelogAny ==
    /\ nOps < MaxOps
    /\ \E v \in {<<1, 2, 3>>}, entry \in Messages \cup {<< >>}, date_str \in Dates :
         \E r \in {update_changelog(Files, v, entry, date_str)} :
             /\ Commit(r.files)
             /\ outcome' = ApiOutcome(<< >>, r.error, "")
             /\ Invoke("update_changelog", None, Some(entry), v, date_str)

\* vm.create_git_tag(major, minor, patch, message), with the version read by
\* get_current_version as its callers do, or with any version
ApiCreateGitTag ==
    /\ nOps < MaxOps
    /\ \E v \in SomeTriples \cup {get_current_version(versionFile)},
          message \in {None, Some(<< >>)} \cup {Some(m) : m \in Messages} :
         \E r \in {create_git_tag(git, v, message)} :
             /\ Commit(Files)
             /\ git' = r.git
             /\ gitCalls' = r.calls
             /\ outcome' = ApiOutcome(<< >>, "", r.warning)
             /\ Record("create_git_tag", None, message, v, NoDate)
             /\ UNCHANGED session

\* python version_manager.py tag [message]
MainTag ==
    /\ nOps < MaxOps
    /\ \E type_or_version \in {None, Some(<< >>)} \cup {Some(m) : m \in Messages},
          message \in {None, Some(<<"m">>)} :
         \E r \in {main_tag(Files, git, type_or_version, message)} :
             /\ Commit(Files)
             /\ git' = r.git
             /\ gitCalls' = r.calls
             /\ outcome' = ExitOutcome(r.code, r.warning)
             /\ Record("main tag", type_or_version, message, << >>, NoDate)
             /\ UNCHANGED session

\* python version_manager.py bump [type] [message]
MainBump ==
    /\ nOps < MaxOps
    /\ \E type_or_version \in {None, Some(<< >>), Some(BOGUS)} \cup {Some(t) : t \in BumpTypes},
          message \in {None, Some(<<"m">>)} :
         \E date_str \in DatesFor(message) :
           \E r \in {main_bump(Files, type_or_version, message, date_str)} :
               /\ Commit(r.files)
               /\ outcome' = ExitOutcome(r.code, r.warning)
               /\ Invoke("main bump", type_or_version, message, << >>, date_str)

\* python version_manager.py set [version]
MainSet ==
    /\ nOps < MaxOps
    /\ \E type_or_version \in {None} \cup {Some(a) : a \in SetArgs} :
         \E r \in {main_set(Files, type_or_version)} :
             /\ Commit(r.files)
             /\ outcome' = ExitOutcome(r.code, r.warning)
             /\ Invoke("main set", type_or_version, None, << >>, NoDate)

\* a step of the interactive session: the event, and how the program took it
SessionStep(op, line, took) ==
    /\ call' = [op |-> op, arg |-> line, message |-> None, triple |-> << >>,
                date |-> NoDate]
    /\ before' = Files
    /\ outcome' = took
    /\ UNCHANGED <<client, sourceFile>>

\* a handler of the session ended: it printed an error, or it did not
Handled(reported, warning) ==
    [status |-> IF reported = "" THEN "done" ELSE "reported",
     value |-> << >>, error |-> reported, code |-> -1, warning |-> warning]

\* python version_manager.py: interactive_mode begins to print its header
StartInteractive ==
    /\ session.at = "none"
    /\ session' = AtPrompt("starting", << >>)
    /\ SessionStep("interactive_mode", None, Handled("", ""))
    /\ Commit(Files)
    /\ UNCHANGED <<nOps, git, gitCalls>>

\* the header, the current version and the menu are printed; the loop begins
ShowMenu ==
    /\ session.at = "starting"
    /\ session' = AtPrompt("menu", << >>)
    /\ SessionStep("menu", None, Handled("", ""))
    /\ Commit(Files)
    /\ UNCHANGED <<nOps, git, gitCalls>>

\* a line is typed at "Enter your choice (0-6): "
ChooseMenu ==
    /\ session.at = "menu"
    /\ nOps < MaxInputs
    /\ \E line \in MenuLines :
         \E r \in {menu_choice(line)} :
             /\ session' = r.session
             /\ SessionStep("menu choice", Some(line),
                             IF r.session.at = "exited" THEN ExitOutcome(0, "")
                             ELSE Handled(r.reported, ""))
    /\ Commit(Files)
    /\ nOps' = nOps + 1
    /\ UNCHANGED <<git, gitCalls>>

\* a line is typed at "Enter changelog message for ... bump (optional): "
EnterMessage ==
    /\ session.at = "message"
    /\ nOps < MaxInputs
    /\ \E line \in MessageLines :
         \E date_str \in DatesFor(OrNone(Strip(line))) :
           \E r \in {interactive_bump(Files, session.kind, line, date_str)} :
               /\ Commit(r.files)
               /\ SessionStep("message input", Some(line), Handled(r.reported, r.warning))
    /\ session' = AtPrompt("menu", << >>)
    /\ nOps' = nOps + 1
    /\ UNCHANGED <<git, gitCalls>>

\* a line is typed at "Enter version (e.g., 1.2.3): "
EnterVersion ==
    /\ session.at = "version"
    /\ nOps < MaxInputs
    /\ \E line \in VersionLines :
         \E r \in {interactive_set(Files, line)} :
             /\ Commit(r.files)
             /\ SessionStep("version input", Some(line), Handled(r.reported, r.warning))
    /\ session' = AtPrompt("menu", << >>)
    /\ nOps' = nOps + 1
    /\ UNCHANGED <<git, gitCalls>>

\* a line is typed at "Enter tag message (optional): "
EnterTagMessage ==
    /\ session.at = "tag message"
    /\ nOps < MaxInputs
    /\ \E line \in MessageLines :
         \E r \in {interactive_tag(Files, git, line)} :
             /\ git' = r.git
             /\ gitCalls' = r.calls
             /\ SessionStep("tag message input", Some(line), Handled("", r.warning))
    /\ Commit(Files)
    /\ session' = AtPrompt("menu", << >>)
    /\ nOps' = nOps + 1

\* input() raises EOFError: at the menu prompt and, from a handler, through it,
\* the `except Exception` arm of the loop prints it and the loop goes on
EndOfInput ==
    /\ session.at \in {"menu", "message", "version", "tag message"}
    /\ nOps < MaxInputs
    /\ session' = AtPrompt("menu", << >>)
    /\ SessionStep("EOF", None, Handled("EOFError", ""))
    /\ Commit(Files)
    /\ nOps' = nOps + 1
    /\ UNCHANGED <<git, gitCalls>>

\* Ctrl-C while the header or the menu is printed, or at one of the prompts
InterruptAtPrompt ==
    /\ session.at \in {"starting", "menu", "message", "version", "tag message"}
    /\ session' = OnKeyboardInterrupt(session)
    /\ SessionStep("KeyboardInterrupt", None, ExitOutcome(session'.code, ""))
    /\ Commit(Files)
    /\ UNCHANGED <<nOps, git, gitCalls>>

\* Ctrl-C after a line was typed at a handler's prompt, while the operation runs
InterruptOperation ==
    /\ session.at \in {"message", "version", "tag message"}
    /\ nOps < MaxInputs
    /\ \/ /\ session.at = "message"
          /\ \E line \in MessageLines :
               \E date_str \in DatesFor(OrNone(Strip(line))) :
                 \E fs \in InterruptedBump(Files, session.kind, line, date_str) :
                   Commit(fs)
          /\ UNCHANGED <<git, gitCalls>>
       \/ /\ session.at = "version"
          /\ \E line \in VersionLines :
               \E fs \in InterruptedSet(Files, line) : Commit(fs)
          /\ UNCHANGED <<git, gitCalls>>
       \/ /\ session.at = "tag message"
          /\ \E line \in MessageLines :
               \E r \in InterruptedTag(Files, git, line) :
                 /\ git' = r.git
                 /\ gitCalls' = r.calls
          /\ Commit(Files)
    /\ session' = OnKeyboardInterrupt(session)
    /\ SessionStep("KeyboardInterrupt", None, ExitOutcome(session'.code, ""))
    /\ nOps' = nOps + 1

\* python version_manager.py current, in a sequence of commands
StepCurrent ==
    /\ nOps < MaxSteps
    /\ \E r \in {main_current(Files)} :
         /\ Commit(r.files)
         /\ outcome' = [ExitOutcome(r.code, "") EXCEPT !.value = r.value]
    /\ Invoke("main current", None, None, << >>, NoDate)

\* python version_manager.py bump [type], in a sequence of commands
StepBump ==
    /\ nOps < MaxSteps
    /\ \E type_or_version \in {Some(BOGUS)} \cup {Some(t) : t \in BumpTypes} :
         \E r \in {main_bump(Files, type_or_version, None, NoDate)} :
           /\ Commit(r.files)
           /\ outcome' = ExitOutcome(r.code, r.warning)
           /\ Invoke("main bump", type_or_version, None, << >>, NoDate)

\* python version_manager.py set [version], in a sequence of commands
StepSet ==
    /\ nOps < MaxSteps
    /\ \E type_or_version \in {Some(<<"0",".","0",".","0">>), Some(<<"1",".","2",".","3">>),
                                Some(<<"0","1",".","2",".","3","\n">>), Some(<<"1",".","2">>)} :
         \E r \in {main_set(Files, type_or_version)} :
           /\ Commit(r.files)
           /\ outcome' = ExitOutcome(r.code, r.warning)
           /\ Invoke("main set", type_or_version, None, << >>, NoDate)

\* python version_manager.py tag, in a sequence of commands
StepTag ==
    /\ nOps < MaxSteps
    /\ \E r \in {main_tag(Files, git, None, None)} :
         /\ Commit(Files)
         /\ git' = r.git
         /\ gitCalls' = r.calls
         /\ outcome' = ExitOutcome(r.code, r.warning)
    /\ Record("main tag", None, None, << >>, NoDate)
    /\ UNCHANGED session

\* a bump through the menu of interactive mode, without a changelog message
StepInteractiveBump ==
    /\ nOps < MaxSteps
    /\ \E bump_type \in BumpTypes :
         \E r \in {interactive_bump(Files, bump_type, << >>, NoDate)} :
           /\ Commit(r.files)
           /\ outcome' = Handled(r.reported, r.warning)
           /\ Invoke("interactive bump", Some(bump_type), None, << >>, NoDate)

\* a set through the menu of interactive mode
StepInteractiveSet ==
    /\ nOps < MaxSteps
    /\ \E line \in {<<" ","2",".","0",".","0"," ">>, <<"x">>} :
         \E r \in {interactive_set(Files, line)} :
           /\ Commit(r.files)
           /\ outcome' = Handled(r.reported, r.warning)
           /\ Invoke("interactive set", Some(line), None, << >>, NoDate)

\* the fixer specification starts from a Python file under the root
\* directory: at any of the paths, holding any of the texts, or bytes that are
\* not UTF-8, or nothing, or a text in a file that cannot be written
InitFixer ==
    LET SourcePaths ==
            {
              <<"s","r","c","/","c","l","i","e","n","t",".","p","y">>,
              <<"s","r","c","/","t","e","s","t","i","n","g","/","h","e","l","p","e","r",".","p","y">>,
              <<"s","r","c","/","l","a","t","e","s","t",".","p","y">>,
              <<"s","r","c","/","T","e","s","t","i","n","g","/","K","e","y","s",".","p","y">>,
              <<"t","e","s","t","s","/","t","e","s","t","_","c","l","i","e","n","t",".","p","y">>,
              <<"s","r","c","/","t","e","s","t","_","k","e","y","s",".","p","y">>,
              <<"s","r","c","/","c","o","n","f","i","g",".","p","y">> }
        SourceTexts ==
            {
              <<"s","e","e","d"," ","="," ","\"","/","/","A","l","i","c","e","\"","\n","u","r","l"," ",
                "="," ","\"","h","t","t","p",":","/","/","l","o","c","a","l","h","o","s","t",":","5",
                "0","0","1","\"","\n">>,
              <<"s","e","e","d"," ","="," ","'","/","/","A","l","i","c","e","'","\r","\n">>,
              <<"u","r","l"," ","="," ","\"","w","s",":","/","/","1","2","7",".","0",".","0",".","1",
                ":","9","9","4","4","\"","\n">>,
              <<"i","m","p","o","r","t"," ","o","s","\n","\n","d","e","f"," ","f","(",")",":","\n"," ",
                " "," "," ","r","e","t","u","r","n"," ","\"","/","/","A","l","i","c","e","\"","\n">>,
              <<"x"," ","="," ","1","\n">>,
              <<"p","o","r","t"," ","="," ","o","s",".","g","e","t","e","n","v","(","\"","P","O","R",
                "T","\"",","," ","'","8","0","0","0","'",")","\n">> }
        SourceFiles ==
            {TextFile(t) : t \in SourceTexts}
                \cup {UnreadableFile, NoFile}
                \cup {WithWritable(TextFile(t), "denied") : t \in SourceTexts}
    IN  /\ versionFile = NoFile
        /\ pyprojectFile = NoFile
        /\ changelogFile = NoFile
        /\ git = NoGit
        /\ session = NoSession
        /\ InitRecord
        /\ client = NoClient
        /\ sourceFile \in {[path |-> path, file |-> file] :
                              path \in SourcePaths, file \in SourceFiles}

\* fixer.fix_file(file_path)
ApiFixFile ==
    /\ nOps < MaxFixes
    /\ \E r \in {fix_file(sourceFile)} :
          /\ sourceFile' = [sourceFile EXCEPT !.file = r.file]
          /\ outcome' = ApiOutcome([changed |-> r.changed, changes |-> r.changes],
                                   r.error, "")
    /\ call' = [op |-> "fix_file", arg |-> Some(sourceFile.path), message |-> None,
                triple |-> << >>, date |-> NoDate]
    /\ before' = Files
    /\ nOps' = nOps + 1
    /\ Commit(Files)
    /\ UNCHANGED <<git, gitCalls, session, client>>

NextFixer == ApiFixFile

SpecFixer == InitFixer /\ [][NextFixer]_vars

\* the message specification starts without a changelog, or from a document
\* with or without its Unreleased heading and its released section
InitMessages ==
    /\ versionFile = NoFile
    /\ pyprojectFile = NoFile
    /\ changelogFile \in {NoFile, TextFile(ChangelogText),
                           TextFile(JoinWith(<<1>>, <<LF>>)),
                           TextFile(JoinWith(<<1, 4, 5>>, <<LF>>)),
                           TextFile(JoinWith(<<3, 4, 5>>, <<LF>>)),
                           TextFile(JoinWith(<<1, 2, 3>>, <<CR, LF>>))}
    /\ git = NoGit
    /\ session = NoSession
    /\ InitCommon

\* vm.update_changelog(major, minor, patch, entry) with a message of one line
\* or of several, one of which holds a line that reads as the Unreleased heading
ApiUpdateChangelogMessage ==
    /\ nOps < MaxInserts
    /\ \E v \in {<<1, 2, 3>>},
          entry \in {<<"m">>, <<"a","\n","b">>, <<"a","\n">> \o UNRELEASED},
          date_str \in Dates :
         \E r \in {update_changelog(Files, v, entry, date_str)} :
             /\ Commit(r.files)
             /\ outcome' = ApiOutcome(<< >>, r.error, "")
             /\ Invoke("update_changelog", None, Some(entry), v, date_str)

NextMessages == ApiUpdateChangelogMessage

SpecMessages == InitMessages /\ [][NextMessages]_vars

\* the client specification starts before the client is constructed
InitClient ==
    /\ versionFile = NoFile
    /\ pyprojectFile = NoFile
    /\ changelogFile = NoFile
    /\ git = NoGit
    /\ session = NoSession
    /\ InitCommon

\* an operation on the chain client: it touches no file and runs no git
ClientStep(op, arg, triple, took) ==
    /\ call' = [op |-> op, arg |-> arg, message |-> None, triple |-> triple,
                date |-> NoDate]
    /\ outcome' = took
    /\ before' = Files
    /\ nOps' = nOps + 1
    /\ Commit(Files)
    /\ UNCHANGED <<git, gitCalls, session, sourceFile>>

\* client = ModNetClient(substrate_url, ipfs_api_url=..., ipfs_gateway_url=...)
ConstructClient ==
    /\ ~client.constructed
    /\ \E substrate_url \in {"ws://127.0.0.1:9944", "wss://node.example:443"},
          ipfs_api_url \in {None, Some(""), Some("http://ipfs.example:5001")},
          ipfs_gateway_url \in {None, Some(""), Some("http://ipfs.example:8080")} :
          /\ client' = NewModNetClient(substrate_url, ipfs_api_url, ipfs_gateway_url)
          /\ ClientStep("ModNetClient", None,
                        <<substrate_url, ipfs_api_url, ipfs_gateway_url>>,
                        ApiOutcome(<< >>, "", ""))

\* client.health_check(), the node answering or failing in any way: head is ""
\* when get_chain_head() returns, else the class of the exception it raises
ApiHealthCheck ==
    /\ client.constructed
    /\ nOps <= MaxCalls
    /\ \E head \in {""} \cup ExceptionClasses \cup BaseExceptionClasses :
          \E r \in {health_check(client, head)} :
             /\ client' = r.client
             /\ ClientStep("health_check", Some(head), << >>,
                           ApiOutcome(r.value, r.error, ""))

NextClient ==
    \/ ConstructClient
    \/ ApiHealthCheck

SpecClient == InitClient /\ [][NextClient]_vars

Next ==
    \/ ApiGetCurrentVersion
    \/ ApiSetVersion
    \/ ApiBumpVersion
    \/ MainBump
    \/ MainSet

Spec == Init /\ [][Next]_vars

NextChangelog == ApiUpdateChangelog

SpecChangelog == InitChangelog /\ [][NextChangelog]_vars

NextFaults ==
    \/ ApiSetVersion
    \/ ApiBumpVersion
    \/ ApiUpdateChangelogAny
    \/ MainBump
    \/ MainSet

SpecFaults == InitFaults /\ [][NextFaults]_vars

NextTag ==
    \/ ApiCreateGitTag
    \/ MainTag
    \/ ApiSetVersion

SpecTag == InitTag /\ [][NextTag]_vars

NextSequence ==
    \/ StepCurrent
    \/ StepBump
    \/ StepSet
    \/ StepTag
    \/ StepInteractiveBump
    \/ StepInteractiveSet

SpecSequence == InitSequence /\ [][NextSequence]_vars

NextInteractive ==
    \/ StartInteractive
    \/ ShowMenu
    \/ ChooseMenu
    \/ EnterMessage
    \/ EnterVersion
    \/ EnterTagMessage
    \/ EndOfInput
    \/ InterruptAtPrompt
    \/ InterruptOperation

SpecInteractive == InitInteractive /\ [][NextInteractive]_vars

(***************************************************************************)
(* Vocabulary of the properties, stated apart from the operators above.    *)
(***************************************************************************)
\* s is exactly digits "." digits "." digits: a serialized SemanticVersion
IsTripleText(s) ==
    LET dots == {i \in 1..Len(s) : s[i] = "."}
    IN  /\ Cardinality(dots) = 2
        /\ \A i \in 1..Len(s) : i \notin dots => s[i] \in Digits
        /\ \A i \in dots : i > 1 /\ i < Len(s) /\ (i + 1) \notin dots

RECURSIVE DecimalValue(_)
DecimalValue(ds) ==
    IF ds = << >> THEN 0
    ELSE 10 * DecimalValue(SubSeq(ds, 1, Len(ds) - 1))
         + (CHOOSE d \in 0..9 : DigitChars[d + 1] = ds[Len(ds)])

\* the triple a serialized SemanticVersion stands for
TripleOfText(s) ==
    LET dots == {i \in 1..Len(s) : s[i] = "."}
        d1 == Min(dots)
        d2 == CHOOSE i \in dots : i # d1
    IN  <<DecimalValue(SubSeq(s, 1, d1 - 1)),
          DecimalValue(SubSeq(s, d1 + 1, d2 - 1)),
          DecimalValue(SubSeq(s, d2 + 1, Len(s)))>>

\* the text of a file as a text-mode read returns it, whitespace trimmed
TrimmedText(file) == Strip(UniversalNewlines(file.data))

\* a VERSION file that holds a well-formed version
WellFormedVersionFile(file) ==
    file.exists /\ file.readable /\ IsTripleText(TrimmedText(file))

\* the changelog block of section 4.2 of the specification:
\* "## [{v}] - {date}", a blank line, "### Changed", "- {message}"
BlockHeadingOpen ==
    <<"#","#"," ","[">>

BlockHeadingSep ==
    <<"]"," ","-"," ">>

BlockChanged ==
    <<"#","#","#"," ","C","h","a","n","g","e","d">>

BlockBullet ==
    <<"-"," ">>

BlockHeading(version_text, date_str) ==
    BlockHeadingOpen \o version_text \o BlockHeadingSep \o date_str

Block(version_text, date_str, message) ==
    BlockHeading(version_text, date_str) \o <<LF, LF>> \o BlockChanged \o <<LF>>
        \o BlockBullet \o message

\* the block of the update_changelog call last made
CallBlock == Block(VersionStr(call.triple), call.date, call.message.val)

\* new is old with one non-empty contiguous piece spliced in
IsSplice(old, new) ==
    /\ Len(new) > Len(old)
    /\ \E p \in 0..Len(old) :
         /\ SubSeq(new, 1, p) = SubSeq(old, 1, p)
         /\ SubSeq(new, Len(new) - (Len(old) - p) + 1, Len(new)) = SubSeq(old, p + 1, Len(old))

\* new is old with one non-empty piece spliced in just before position p of old
IsSpliceAt(old, new, p) ==
    /\ Len(new) > Len(old)
    /\ SubSeq(new, 1, p - 1) = SubSeq(old, 1, p - 1)
    /\ SubSeq(new, Len(new) - (Len(old) - p), Len(new)) = SubSeq(old, p, Len(old))

\* update_changelog was called on an existing, readable changelog and returned
InsertedIntoExisting ==
    /\ call.op = "update_changelog"
    /\ outcome.status = "returned"
    /\ before.changelog.exists
    /\ before.changelog.readable

\* the positions at which a line of s starts with "##" and contains "["
HeadingLineStarts(s) ==
    {p \in 1..Len(s) :
       /\ p = 1 \/ s[p - 1] = LF
       /\ LET stop == Min({j \in p..(Len(s) + 1) : j = Len(s) + 1 \/ s[j] = LF})
              line == SubSeq(s, p, stop - 1)
          IN  StartsWith(line, <<"#", "#">>) /\ \E i \in 1..Len(line) : line[i] = "["}

(***************************************************************************)
(* C1..C5: the version store and its command line (specification Spec).    *)
(***************************************************************************)
\* C1: for every well-formed current version (a,b,c), bump_version("major")
\* returns (a+1,0,0), "minor" returns (a,b+1,0) and "patch" returns (a,b,c+1),
\* and when the call returns VERSION holds exactly the returned triple.
C1_BumpArithmeticPersisted ==
    (/\ call.op = "bump_version"
     /\ outcome.status = "returned"
     /\ WellFormedVersionFile(before.version))
    => LET v == TripleOfText(TrimmedText(before.version))
           bump_type == call.arg.val
       IN  /\ bump_type = MAJOR => outcome.value = <<v[1] + 1, 0, 0>>
           /\ bump_type = MINOR => outcome.value = <<v[1], v[2] + 1, 0>>
           /\ bump_type = PATCH => outcome.value = <<v[1], v[2], v[3] + 1>>
           /\ WellFormedVersionFile(versionFile)
           /\ TripleOfText(TrimmedText(versionFile)) = outcome.value

\* a major bump of 9.9.9 returned 10.0.0
C1_Witness ==
    /\ call.op = "bump_version"
    /\ outcome.status = "returned"
    /\ WellFormedVersionFile(before.version)
    /\ TripleOfText(TrimmedText(before.version)) = <<9, 9, 9>>
    /\ call.arg.val = MAJOR
    /\ outcome.value = <<10, 0, 0>>

\* C2: round trip: whatever VERSION held before (missing, unreadable, garbled, a
\* higher version), after set_version(v) the current version reads back as
\* exactly v; a set that moves the version backward is accepted like any other.
C2_SetThenCurrentRoundTrip ==
    call.op = "set_version"
    => /\ outcome.status = "returned"
       /\ get_current_version(versionFile) = call.triple
       /\ WellFormedVersionFile(versionFile)
       /\ TripleOfText(TrimmedText(versionFile)) = call.triple

\* set_version(1,2,3) over a VERSION that held 9.9.9: the version moved backward
C2_Witness ==
    /\ call.op = "set_version"
    /\ WellFormedVersionFile(before.version)
    /\ TripleOfText(TrimmedText(before.version)) = <<9, 9, 9>>
    /\ call.triple = <<1, 2, 3>>
    /\ get_current_version(versionFile) = <<1, 2, 3>>

\* C3: get_current_version returns the default (0,1,0) whenever VERSION is
\* missing, unreadable, or its trimmed content is not in full a strict triple;
\* it never raises, and never returns a triple parsed from part of the content.
C3_DefaultOnMissingOrMalformed ==
    call.op = "get_current_version"
    => /\ outcome.status = "returned"
       /\ ~WellFormedVersionFile(before.version) => outcome.value = DEFAULT_VERSION

\* get_current_version on a VERSION holding "1.2.3-rc1" answered (0,1,0)
C3_Witness ==
    /\ call.op = "get_current_version"
    /\ before.version.exists
    /\ before.version.data = <<"1",".","2",".","3","-","r","c","1">>
    /\ outcome.value = DEFAULT_VERSION

\* C4: a bump whose kind is not major, minor or patch fails (ValueError from
\* bump_version, a non-zero exit from the command line) before any write:
\* VERSION, pyproject.toml and CHANGELOG.md are the same before and after.
C4_InvalidKindRejectedBeforeWrite ==
    /\ (call.op = "bump_version" /\ call.arg.val \notin BumpTypes)
       => outcome.status = "raised" /\ outcome.error = "ValueError" /\ Files = before
    /\ (call.op = "main bump" /\ (~call.arg.some \/ call.arg.val \notin BumpTypes))
       => outcome.status = "exited" /\ outcome.code # 0 /\ Files = before

\* bump_version("bogus", "m") raised ValueError in a project that has a VERSION
C4_Witness ==
    /\ call.op = "bump_version"
    /\ call.arg.val = BOGUS
    /\ Truthy(call.message)
    /\ before.version.exists
    /\ outcome.error = "ValueError"

\* C5: `set` accepts its version argument exactly when the whole argument is a
\* strict triple, and every rejected argument ends in a non-zero exit with
\* VERSION, pyproject.toml and CHANGELOG.md unchanged.
C5_SetAcceptsExactlyStrictTriples ==
    call.op = "main set"
    => /\ outcome.code = 0 <=> (call.arg.some /\ IsTripleText(call.arg.val))
       /\ outcome.code # 0 => Files = before

(***************************************************************************)
(* C6..C10: update_changelog (specification SpecChangelog).                *)
(***************************************************************************)
\* C6: insertEntry is structurally local: the document after the call is the
\* document before the call with one contiguous new block spliced in; every
\* character the document had is present, unmodified and in the same order.
C6_InsertIsSpliceOfDocument ==
    InsertedIntoExisting => IsSplice(before.changelog.data, changelogFile.data)

\* C7: with "## [Unreleased]" and a later "## [x] - d" heading, the new block
\* goes after the Unreleased heading and its body and strictly before the first
\* following "## [" heading; the released section, from its heading to the end
\* of the file, is identical before and after.
C7_InsertBetweenUnreleasedAndReleased ==
    LET old == before.changelog.data
        at == Find(old, UNRELEASED)
        later == {p \in Occurrences(old, NEXT_SECTION) : p > at}
    IN  (InsertedIntoExisting /\ at # 0 /\ later # {})
        => IsSpliceAt(old, changelogFile.data, Min(later) + 1)

\* C8: with no "## [Unreleased]", the new block is inserted immediately before
\* the first line that starts with "##" and contains "[", wherever that line is,
\* the very first line included.
C8_InsertBeforeFirstHeadingLine ==
    LET content == UniversalNewlines(before.changelog.data)
        heads == HeadingLineStarts(content)
    IN  (InsertedIntoExisting /\ ~Contains(content, UNRELEASED) /\ heads # {})
        => /\ IsSpliceAt(content, changelogFile.data, Min(heads))
           /\ Contains(changelogFile.data, CallBlock)

\* C9: with neither "## [Unreleased]" nor a line that starts with "##" and
\* contains "[", the new block is appended at the end of the file, after all
\* existing content.
C9_AppendWhenNoHeading ==
    LET content == UniversalNewlines(before.changelog.data)
    IN  (InsertedIntoExisting /\ ~Contains(content, UNRELEASED)
           /\ HeadingLineStarts(content) = {})
        => changelogFile.data = content \o <<LF>> \o CallBlock \o <<LF>>

\* a block was appended to a document of two lines without any heading
C9_Witness ==
    /\ InsertedIntoExisting
    /\ before.changelog.data = <<"#"," ","C","h","a","n","g","e","l","o","g","\n","-"," ","o","l","d">>
    /\ changelogFile.data = before.changelog.data \o <<LF>> \o CallBlock \o <<LF>>

\* C10: insertEntry appends and never merges: every successful call adds exactly
\* one block, so the document holds one more copy of the call's block than it
\* held before, whatever it held (copies of the same block included).
C10_EveryCallAddsOneBlock ==
    (call.op = "update_changelog" /\ outcome.status = "returned")
    => Cardinality(Occurrences(changelogFile.data, CallBlock))
         = Cardinality(Occurrences(UniversalNewlines(before.changelog.data), CallBlock)) + 1

\* the second of two calls with the same version, date and message left two
\* copies of the block
C10_Witness ==
    /\ call.op = "update_changelog"
    /\ outcome.status = "returned"
    /\ Cardinality(Occurrences(UniversalNewlines(before.changelog.data), CallBlock)) = 1
    /\ Cardinality(Occurrences(changelogFile.data, CallBlock)) = 2

(***************************************************************************)
(* C11: creation of a missing changelog (specification SpecChangelog).     *)
(***************************************************************************)
\* C11: when CHANGELOG.md does not exist, update_changelog creates it as the
\* standard header, then exactly one "## [Unreleased]" heading, then the new
\* block beneath that heading, and nothing else.
C11_CreatedChangelogLayout ==
    (call.op = "update_changelog" /\ ~before.changelog.exists)
    => /\ outcome.status = "returned"
       /\ changelogFile.exists
       /\ changelogFile.data = CHANGELOG_HEADER \o UNRELEASED \o <<LF, LF>> \o CallBlock
                                  \o <<LF, LF>>
       /\ Cardinality(Occurrences(changelogFile.data, UNRELEASED)) = 1

\* a changelog was created by update_changelog(1, 2, 3, "fix")
C11_Witness ==
    /\ call.op = "update_changelog"
    /\ ~before.changelog.exists
    /\ call.message.val = <<"f","i","x">>
    /\ changelogFile.exists
    /\ Contains(changelogFile.data, CallBlock)

(***************************************************************************)
(* C12..C17: failures of the file operations (specification SpecFaults,    *)
(* C15 under Spec).                                                        *)
(***************************************************************************)
\* C12: update_changelog called with an empty message is rejected with an
\* error before any file mutation: CHANGELOG.md is neither created nor modified
\* (stated for a changelog path on which a write would succeed).
C12_EmptyMessageRejected ==
    (/\ call.op = "update_changelog"
     /\ call.message.val = << >>
     /\ before.changelog.writable = "yes")
    => /\ outcome.status = "raised"
       /\ changelogFile = before.changelog

\* C13: if persisting the changelog fails during update_changelog (at open or
\* in the middle of the write), CHANGELOG.md afterwards holds exactly its
\* pre-call content, or still does not exist; no truncated document is left.
C13_FailedInsertLeavesChangelogIntact ==
    (call.op = "update_changelog" /\ outcome.status = "raised")
    => changelogFile = before.changelog

\* the version a project directory is at: the well-formed content of VERSION,
\* and the default without one
VersionOf(file) ==
    IF WellFormedVersionFile(file) THEN TripleOfText(TrimmedText(file))
    ELSE DEFAULT_VERSION

\* the version that follows v by a bump of the given kind
Successor(v, kind) ==
    CASE kind = MAJOR -> <<v[1] + 1, 0, 0>>
      [] kind = MINOR -> <<v[1], v[2] + 1, 0>>
      [] kind = PATCH -> <<v[1], v[2], v[3] + 1>>

\* a bump of a valid kind was invoked, through the API or the command line
BumpInvoked ==
    /\ call.op \in {"bump_version", "main bump"}
    /\ call.arg.some
    /\ call.arg.val \in BumpTypes

\* the operation last invoked ended without an error
EndedWell ==
    \/ outcome.status = "returned"
    \/ outcome.status = "exited" /\ outcome.code = 0

\* the operation last invoked reported a failure to its caller
EndedInFailure ==
    \/ outcome.status = "raised"
    \/ outcome.status = "exited" /\ outcome.code # 0

\* a write of the changelog is bound to fail, and nothing fails before it
ChangelogWriteFails(file) ==
    /\ file.writable # "yes"
    /\ file.exists => file.readable

\* C14: bump with a changelog message is not transactional: if the changelog
\* write fails after the version write succeeded, VERSION keeps the new bumped
\* version (no rollback) and the failure is reported to the caller.
C14_NoRollbackOnChangelogFailure ==
    (/\ BumpInvoked
     /\ Truthy(call.message)
     /\ before.version.writable = "yes"
     /\ ChangelogWriteFails(before.changelog))
    => /\ EndedInFailure
       /\ WellFormedVersionFile(versionFile)
       /\ VersionOf(versionFile) = Successor(VersionOf(before.version), call.arg.val)

\* bump_version("minor", "m") at 1.2.3 raised on a full disk and left VERSION
\* at 1.3.0
C14_Witness ==
    /\ call.op = "bump_version"
    /\ call.arg.val = MINOR
    /\ Truthy(call.message)
    /\ before.version.data = <<"1",".","2",".","3","\n">>
    /\ before.changelog.writable = "full"
    /\ outcome.status = "raised"
    /\ versionFile.data = <<"1",".","3",".","0","\n">>

\* the text of a changelog as a text-mode read returns it; empty without a file
ChangelogTextOf(file) == IF file.exists THEN UniversalNewlines(file.data) ELSE << >>

\* C15: a bump with a non-empty message inserts exactly one changelog block,
\* filed under the post-bump version with "- message" under "### Changed"; with
\* no message or an empty one CHANGELOG.md is neither created nor modified.
C15_MessageFilesOneBlockUnderNewVersion ==
    /\ (BumpInvoked /\ EndedWell /\ Truthy(call.message))
       => LET old == ChangelogTextOf(before.changelog)
              new == ChangelogTextOf(changelogFile)
              block == Block(TrimmedText(versionFile), call.date, call.message.val)
          IN  /\ VersionOf(versionFile) = Successor(VersionOf(before.version), call.arg.val)
              /\ Cardinality(Occurrences(new, block))
                   = Cardinality(Occurrences(old, block)) + 1
              /\ Cardinality(Occurrences(new, BlockChanged))
                   = Cardinality(Occurrences(old, BlockChanged)) + 1
    /\ (BumpInvoked /\ ~Truthy(call.message)) => changelogFile = before.changelog

\* in an empty project directory bump_version("minor", "m") left VERSION at
\* 0.2.0 and a CHANGELOG.md with a block for 0.2.0
C15_Witness ==
    /\ call.op = "bump_version"
    /\ call.arg.val = MINOR
    /\ call.message = Some(<<"m">>)
    /\ before = [version |-> NoFile, pyproject |-> NoFile, changelog |-> NoFile]
    /\ versionFile.data = <<"0",".","2",".","0","\n">>
    /\ Contains(changelogFile.data, Block(<<"0",".","2",".","0">>, call.date, <<"m">>))

\* the pyproject.toml step of set_version is bound to fail
PyprojectSyncFails(file) ==
    /\ file.exists
    /\ ~file.readable \/ file.writable # "yes"

\* the changelog step of the operation last invoked is skipped or cannot fail
ChangelogStepSafe ==
    \/ ~Truthy(call.message)
    \/ before.changelog.writable = "yes" /\ (before.changelog.exists => before.changelog.readable)

\* C16: the pyproject.toml synchronisation is best-effort: if reading or
\* writing that file fails, set_version (and therefore bump and set) still
\* completes without raising, VERSION holds the new version, and a warning is
\* reported.
C16_PyprojectSyncBestEffort ==
    (PyprojectSyncFails(before.pyproject) /\ before.version.writable = "yes")
    => /\ call.op = "set_version"
          => /\ outcome.status = "returned"
             /\ outcome.warning # ""
             /\ WellFormedVersionFile(versionFile)
             /\ VersionOf(versionFile) = call.triple
       /\ (call.op = "main set" /\ call.arg.some /\ IsTripleText(call.arg.val))
          => /\ outcome.code = 0
             /\ outcome.warning # ""
             /\ WellFormedVersionFile(versionFile)
             /\ VersionOf(versionFile) = TripleOfText(call.arg.val)
       /\ (BumpInvoked /\ ChangelogStepSafe)
          => /\ EndedWell
             /\ outcome.warning # ""
             /\ WellFormedVersionFile(versionFile)
             /\ VersionOf(versionFile) = Successor(VersionOf(before.version), call.arg.val)

\* set_version(1, 2, 3) returned with a warning where the write of
\* pyproject.toml failed midway, and VERSION reads 1.2.3
C16_Witness ==
    /\ call.op = "set_version"
    /\ call.triple = <<1, 2, 3>>
    /\ before.pyproject.writable = "full"
    /\ outcome.status = "returned"
    /\ outcome.warning = "OSError"
    /\ versionFile.data = <<"1",".","2",".","3","\n">>

\* the lines of a pyproject.toml text
TomlLines(text) == SplitLines(text)

\* the line `version = "v"`
VersionLine(v) ==
    <<"v","e","r","s","i","o","n"," ","="," ","\"">> \o VersionStr(v) \o <<"\"">>

\* C17: after a successful set_version(v) with a pyproject.toml that holds a
\* `version = "..."` field, that field reads v and every other part of the file
\* is unchanged, settings whose key merely ends in `version` included.
C17_OnlyVersionFieldRewritten ==
    LET old == TomlLines(UniversalNewlines(before.pyproject.data))
        new == TomlLines(pyprojectFile.data)
    IN  (/\ call.op = "set_version"
         /\ outcome.status = "returned"
         /\ outcome.warning = ""
         /\ before.pyproject.exists
         /\ \E i \in 1..Len(old) : StartsWith(old[i], <<"v","e","r","s","i","o","n">>))
        => /\ Len(new) = Len(old)
           /\ \A i \in 1..Len(old) :
                IF StartsWith(old[i], <<"v","e","r","s","i","o","n">>)
                THEN new[i] = VersionLine(call.triple)
                ELSE new[i] = old[i]

(***************************************************************************)
(* C18, C19: tags (specification SpecTag).                                 *)
(***************************************************************************)
\* the tag operation was invoked, through the API or the command line
TagInvoked == call.op \in {"create_git_tag", "main tag"}

\* the version the tag operation last invoked was given: the triple of the API
\* call, and for the command line the version of the project directory
TagVersion ==
    IF call.op = "create_git_tag" THEN call.triple ELSE VersionOf(before.version)

\* the message the tag operation last invoked was given
TagMessage == IF call.op = "create_git_tag" THEN call.message ELSE call.arg

\* the `git tag` commands among the git commands of the last operation
TagRequests == SelectSeq(gitCalls, LAMBDA c : c.cmd = "tag")

\* "{major}.{minor}.{patch}" in decimal, for components below 100
TripleText(v) ==
    LET Dec(n) == IF n < 10 THEN <<DigitChars[n + 1]>>
                  ELSE <<DigitChars[(n \div 10) + 1], DigitChars[(n % 10) + 1]>>
    IN  Dec(v[1]) \o <<".">> \o Dec(v[2]) \o <<".">> \o Dec(v[3])

\* C18: tag requests an annotated tag named exactly "v{major}.{minor}.{patch}"
\* for the version triple read from VERSION at the time of the call, with the
\* supplied message, or "Release version {major}.{minor}.{patch}" when no
\* message or an empty one is supplied.
C18_TagNameAndMessage ==
    (TagInvoked /\ git.env = "repo")
    => /\ Len(TagRequests) = 1
       /\ TagRequests[1].name = <<"v">> \o TripleText(TagVersion)
       /\ TagRequests[1].message =
            IF TagMessage.some /\ TagMessage.val # << >> THEN TagMessage.val
            ELSE <<"R","e","l","e","a","s","e"," ","v","e","r","s","i","o","n"," ">>
                     \o TripleText(TagVersion)
       /\ call.op = "main tag" => outcome.code = 0

\* `tag` with an empty message at VERSION 10.0.7 requested the tag v10.0.7 with
\* the default message, and the tag exists
C18_Witness ==
    /\ call.op = "main tag"
    /\ call.arg = Some(<< >>)
    /\ before.version.data = <<"1","0",".","0",".","7","\n">>
    /\ Len(TagRequests) = 1
    /\ TagRequests[1].name = <<"v","1","0",".","0",".","7">>
    /\ <<"v","1","0",".","0",".","7">> \in git.tags

\* C19: tag invoked where the project directory is not under version control,
\* or where git is unavailable, ends in a warning: it does not raise, `git tag`
\* is never attempted after the failed repository check, no file is changed,
\* and the command exits with status 0.
C19_TagOutsideRepositoryWarns ==
    (TagInvoked /\ git.env \in {"norepo", "missing"})
    => /\ outcome.status # "raised"
       /\ outcome.warning # ""
       /\ Len(TagRequests) = 0
       /\ Files = before
       /\ call.op = "main tag" => outcome.status = "exited" /\ outcome.code = 0
       /\ call.op = "create_git_tag" => outcome.status = "returned"

\* `tag` outside a repository ran the repository check only and exited 0
C19_Witness ==
    /\ call.op = "main tag"
    /\ git.env = "norepo"
    /\ gitCalls = <<[cmd |-> "rev-parse", name |-> << >>, message |-> << >>]>>
    /\ outcome.code = 0
    /\ outcome.warning # ""

(***************************************************************************)
(* C20: the interactive session (specification SpecInteractive).           *)
(***************************************************************************)
\* the line last typed, whitespace trimmed
TypedLine == IF call.arg.some THEN Strip(call.arg.val) ELSE << >>

\* the line last typed at the menu is one of the choices 0..6
ValidChoice == TypedLine \in {<<"0">>, <<"1">>, <<"2">>, <<"3">>, <<"4">>, <<"5">>, <<"6">>}

\* the session is back at the menu prompt, and an error was printed
ReportedBackAtMenu == session.at = "menu" /\ outcome.status = "reported"

\* C20: interactive mode keeps offering the menu until the choice 0 or an
\* interrupt: a KeyboardInterrupt at any point (while the menu is printed, at
\* the menu prompt, at a sub-prompt, while an operation runs) ends the session
\* with status 0, while an invalid choice, an invalid version string or a
\* failed operation is reported and the session is back at the menu prompt.
C20_InteractiveLoop ==
    /\ call.op = "KeyboardInterrupt"
       => session.at = "exited" /\ session.code = 0 /\ outcome.code = 0
    /\ session.at = "exited"
       => /\ session.code = 0
          /\ \/ call.op = "KeyboardInterrupt"
             \/ call.op = "menu choice" /\ TypedLine = <<"0">>
    /\ (call.op = "menu choice" /\ TypedLine # <<"0">>) => session.at # "exited"
    /\ (call.op = "menu choice" /\ ~ValidChoice) => ReportedBackAtMenu /\ Files = before
    /\ (call.op = "version input" /\ ~IsTripleText(TypedLine))
       => ReportedBackAtMenu /\ Files = before
    /\ (call.op = "version input" /\ IsTripleText(TypedLine)
          /\ before.version.writable # "yes")
       => ReportedBackAtMenu
    /\ (call.op = "message input" /\ before.version.writable # "yes")
       => ReportedBackAtMenu
    /\ (call.op = "message input" /\ TypedLine # << >>
          /\ before.changelog.writable # "yes")
       => ReportedBackAtMenu
    /\ call.op \in {"message input", "version input", "tag message input"}
       => session.at = "menu"

\* Ctrl-C while a bump ran, after VERSION was written: the session ended with
\* status 0
C20_Witness ==
    /\ call.op = "KeyboardInterrupt"
    /\ versionFile # before.version
    /\ changelogFile = before.changelog
    /\ session.at = "exited"
    /\ session.code = 0

(***************************************************************************)
(* C21: exit codes of the command line (specification SpecFaults).         *)
(***************************************************************************)
\* the arguments of the command last invoked are valid: a bump kind that is
\* one of the three, a version that is in whole a strict triple
ValidArguments ==
    /\ call.arg.some
    /\ call.op = "main bump" => call.arg.val \in BumpTypes
    /\ call.op = "main set" => IsTripleText(call.arg.val)

\* C21: every `bump` and `set` invocation ends with an exit code: 0 on
\* success, non-zero for every invalid-argument condition (missing or invalid
\* bump kind, missing or malformed version) and for every operation failure
\* (an unwritable VERSION file).
C21_ExitCodeConvention ==
    call.op \in {"main bump", "main set"}
    => /\ outcome.status = "exited"
       /\ ~ValidArguments => outcome.code # 0
       /\ (ValidArguments /\ before.version.writable # "yes") => outcome.code # 0
       /\ (ValidArguments /\ before.version.writable = "yes" /\ ChangelogStepSafe)
          => outcome.code = 0

(***************************************************************************)
(* C22, C23: the VERSION file (specification Spec).                        *)
(***************************************************************************)
\* C22: the version record is created on first read: after
\* get_current_version on a project without a VERSION file, the file exists
\* and holds the default version 0.1.0.
C22_VersionFileCreatedOnFirstRead ==
    (call.op = "get_current_version" /\ ~before.version.exists)
    => /\ versionFile.exists
       /\ TrimmedText(versionFile) = <<"0",".","1",".","0">>

\* a VERSION file that is exactly one line "X.Y.Z" and a newline
StrictVersionFile(file) ==
    /\ file.exists
    /\ file.readable
    /\ Len(file.data) > 1
    /\ file.data[Len(file.data)] = LF
    /\ IsTripleText(SubSeq(file.data, 1, Len(file.data) - 1))

HealthCheckStep == call'.op = "health_check" /\ nOps' = nOps + 1

\* how get_chain_head ended in the call that the step made
HeadOutcome == call'.arg.val

UrlsOf(c) == <<c.substrate_url, c.ipfs_api_url, c.ipfs_gateway_url>>

\* C24 as stated: health_check returns True exactly when get_chain_head completes
\* without raising and False when it raises; it never propagates an exception
\* and does not change the client's configured URLs.
C24_HealthCheckNeverPropagates ==
    [][HealthCheckStep
       => /\ outcome'.status = "returned"
          /\ outcome'.value = (HeadOutcome = "")
          /\ UrlsOf(client') = UrlsOf(client)]_vars

\* C24, amended: health_check returns True exactly when get_chain_head completes
\* without raising and False when it raises an exception derived from
\* Exception; an exception that derives from BaseException only
\* (KeyboardInterrupt, SystemExit) propagates out of health_check; in every case
\* the client's configured URLs are unchanged.
C24_HealthCheckCatchesException ==
    [][HealthCheckStep
       => /\ HeadOutcome = ""
             => outcome'.status = "returned" /\ outcome'.value = TRUE
          /\ HeadOutcome \in ExceptionClasses
             => outcome'.status = "returned" /\ outcome'.value = FALSE
          /\ HeadOutcome \in BaseExceptionClasses
             => outcome'.status = "raised" /\ outcome'.error = HeadOutcome
          /\ UrlsOf(client') = UrlsOf(client)]_vars

\* the node refused the connection of a client built with default IPFS URLs,
\* after a check that had succeeded: health_check returned False
C24_Witness ==
    /\ call.op = "health_check" /\ nOps = 3
    /\ call.arg.val = "ConnectionRefusedError"
    /\ outcome.status = "returned" /\ outcome.value = FALSE
    /\ client.ipfs_api_url = DEFAULT_IPFS_API_URL
    /\ client.ipfs_gateway_url = DEFAULT_IPFS_GATEWAY_URL


(***************************************************************************)
(* C25: the number of Unreleased headings.                                 *)
(***************************************************************************)
\* the number of lines of text that read `## [Unreleased]`
UnreleasedHeadings(text) ==
    LET lines == SplitLines(text)
    IN  Cardinality({i \in 1..Len(lines) : Strip(lines[i]) = UNRELEASED})

\* C25: update_changelog never increases the number of `## [Unreleased]`
\* headings of an existing document, whatever the non-empty message, of one
\* line or of several: at most one before, at most one after; and a document
\* it creates has exactly one.
C25_UnreleasedHeadingNotDuplicated ==
    (call.op = "update_changelog" /\ outcome.status = "returned"
         /\ call.message.val # << >>)
    => /\ (before.changelog.exists /\ UnreleasedHeadings(before.changelog.data) <= 1)
          => UnreleasedHeadings(changelogFile.data) <= 1
       /\ before.changelog.exists
          => UnreleasedHeadings(changelogFile.data)
                 <= UnreleasedHeadings(before.changelog.data)
       /\ ~before.changelog.exists => UnreleasedHeadings(changelogFile.data) = 1


(***************************************************************************)
(* C26: the keypair seed in files whose path names a test.                 *)
(***************************************************************************)
\* the last step was a fix_file call that returned
FixFileStep == call'.op = "fix_file" /\ nOps' = nOps + 1 /\ outcome'.status = "returned"

\* the path contains `test`, whatever the case of its letters
PathNamesTest(path) == Contains(Lower(path), <<"t","e","s","t">>)

\* the number of `//Alice` in text
SeedLiterals(text) == Cardinality(Occurrences(text, <<"/","/","A","l","i","c","e">>))

\* the rows of the replacement table that are about URLs and ports: those
\* whose pattern matches no quoted seed
UrlAndPortRows ==
    {k \in 1..Len(Replacements) :
        /\ ~Search(Replacements[k].pattern, <<"\"","/","/","A","l","i","c","e","\"">>)
        /\ ~Search(Replacements[k].pattern, <<"'","/","/","A","l","i","c","e","'">>)}

\* C26: fix_file never replaces the `//Alice` literal in a file whose path
\* contains `test` (case-insensitive): in such a file that is not excluded the
\* seed literals are left as they are while the URL and port replacements are
\* still applied.
C26_SeedKeptInTestFiles ==
    [][(FixFileStep /\ PathNamesTest(sourceFile.path))
       => /\ SeedLiterals(sourceFile'.file.data) = SeedLiterals(sourceFile.file.data)
          /\ (~should_exclude_file(sourceFile.path) /\ sourceFile.file.readable)
             => \A k \in UrlAndPortRows :
                   ~Search(Replacements[k].pattern, sourceFile'.file.data)]_vars


(***************************************************************************)
(* C27: bumps and semver precedence.                                       *)
(***************************************************************************)
\* semver precedence: major, then minor, then patch
SemverLess(a, b) ==
    \/ a[1] < b[1]
    \/ a[1] = b[1] /\ a[2] < b[2]
    \/ a[1] = b[1] /\ a[2] = b[2] /\ a[3] < b[3]

\* the last step was a bump of a valid kind that succeeded
BumpSucceeded ==
    /\ nOps' = nOps + 1
    /\ call'.op \in {"main bump", "interactive bump"}
    /\ call'.arg.val \in BumpTypes
    /\ \/ outcome'.status = "exited" /\ outcome'.code = 0
       \/ outcome'.status = "done"

\* what bump_version of the given kind returns in the current state
BumpOf(kind) == bump_version(Files, kind, None, NoDate).value

\* C27: every bump strictly increases the version in semver precedence; the
\* patch, minor and major bumps of one version are in that order; so along a
\* sequence of bumps the persisted version is strictly increasing.
C27_BumpStrictlyIncreases ==
    [][BumpSucceeded
       => /\ SemverLess(VersionOf(versionFile), VersionOf(versionFile'))
          /\ VersionOf(versionFile') = BumpOf(call'.arg.val)
          /\ SemverLess(VersionOf(versionFile), BumpOf(PATCH))
          /\ SemverLess(BumpOf(PATCH), BumpOf(MINOR))
          /\ SemverLess(BumpOf(MINOR), BumpOf(MAJOR))]_vars

\* 1.2.3 was bumped to 2.0.0, then to 2.0.1, then to 2.1.0
C27_Witness ==
    /\ call.op = "main bump" /\ nOps = 3
    /\ call.arg.val = MINOR
    /\ outcome.code = 0
    /\ before.version.data = <<"2",".","0",".","1","\n">>
    /\ versionFile.data = <<"2",".","1",".","0","\n">>


(***************************************************************************)
(* C28: repeated insertions and the order of the blocks.                   *)
(***************************************************************************)
\* the positions at which a released section `## [x] - d` of s starts: its
\* heading lines other than the Unreleased heading.  The blocks that earlier
\* calls inserted are among them.
ReleasedHeadingStarts(s) ==
    {p \in HeadingLineStarts(s) :
        /\ StartsWith(From(s, p), BlockHeadingOpen)
        /\ ~StartsWith(From(s, p), UNRELEASED)}

\* new is old with a piece that holds the block spliced in at position p of old
BlockSplicedAt(old, new, block, p) ==
    /\ IsSpliceAt(old, new, p)
    /\ Contains(SubSeq(new, p, p + (Len(new) - Len(old)) - 1), block)

\* C28: repeated insertions stay newest-first: each newly inserted block sits
\* above every block inserted by an earlier call and above every released
\* section the document had, so the inserted blocks read in reverse order of
\* insertion.
C28_NewestBlockAboveReleasedSections ==
    LET old == UniversalNewlines(before.changelog.data)
    IN  InsertedIntoExisting
        => \E p \in 1..(Len(old) + 1) :
              /\ BlockSplicedAt(old, changelogFile.data, CallBlock, p)
              /\ \A h \in ReleasedHeadingStarts(old) : p <= h


(***************************************************************************)
(* C29: the order of the writes of bump and set.                           *)
(***************************************************************************)
\* a bump or a set was invoked, through the API or the command line
BumpOrSetInvoked == call.op \in {"set_version", "bump_version", "main bump", "main set"}

\* C29: the writes of bump and set are ordered VERSION, pyproject.toml,
\* CHANGELOG.md: if the VERSION write fails the operation fails with
\* pyproject.toml and CHANGELOG.md untouched, and CHANGELOG.md is never
\* modified by a bump whose VERSION write did not succeed.
C29_VersionWrittenFirst ==
    BumpOrSetInvoked
    => /\ before.version.writable # "yes"
          => /\ EndedInFailure
             /\ pyprojectFile = before.pyproject
             /\ changelogFile = before.changelog
       /\ pyprojectFile # before.pyproject
          => /\ before.version.writable = "yes"
             /\ WellFormedVersionFile(versionFile)
       /\ changelogFile # before.changelog
          => /\ BumpInvoked
             /\ before.version.writable = "yes"
             /\ WellFormedVersionFile(versionFile)
             /\ VersionOf(versionFile) = Successor(VersionOf(before.version), call.arg.val)

\* bump_version("patch", "m") could not write VERSION: it raised, and the
\* pyproject.toml and the changelog it would have written are as they were
C29_Witness ==
    /\ call.op = "bump_version"
    /\ call.arg.val = PATCH
    /\ Truthy(call.message)
    /\ before.version.writable = "denied"
    /\ before.pyproject.exists /\ before.pyproject.writable = "yes"
    /\ before.changelog.writable = "yes"
    /\ outcome.status = "raised" /\ outcome.error = "PermissionError"
    /\ pyprojectFile = before.pyproject
    /\ changelogFile = before.changelog


(***************************************************************************)
(* C30: the end of the input of an interactive session.                    *)
(***************************************************************************)
\* C30: interactive mode terminates once its input is exhausted: on the exit
\* choice 0, on an interrupt and on end-of-input (closed standard input) the
\* loop exits instead of prompting again.
C30_InputExhaustedEndsSession ==
    (\/ call.op = "KeyboardInterrupt"
     \/ call.op = "EOF"
     \/ call.op = "menu choice" /\ TypedLine = <<"0">>)
    => session.at = "exited"


====
